---- MODULE Spec2Model ----
(***************************************************************************)
(* Coverage-gap precache orchestrator, the process-wide MemoryCache and    *)
(* the streaming / synchronous coverage analysis readers of               *)
(* jsm-warehousenow-backend.                                               *)
(*                                                                         *)
(* Time is time.time() in whole seconds.  A cache key "ns:rest<number>"    *)
(* is the record [ns, stem, radius]: ns is the text before the first ':'   *)
(* (what clear_warehouse_cache's startswith tests), stem the text after it *)
(* up to a trailing formatted radius, radius that number (0 when the key   *)
(* has none).  A Python value is the record [kind, radius, at].            *)
(***************************************************************************)
EXTENDS Integers, Sequences, FiniteSets, TLC

(***************************************************************************)
(* Bounds of the model.                                                    *)
(***************************************************************************)
StartTime == 1000          \* time.time() when the process starts
MaxRuns == 1               \* precache runs started (batch and streamed together)
MaxReads == 2              \* reader requests started (sync and streamed together)
MaxTicks == 1              \* clock jumps to an expiry boundary (sleeps pass beside them)
MaxProgress == 1           \* data-dependent progress log lines of one loop
MaxJobs == 2               \* precache jobs started by the cron trigger, the startup task, the route
MaxOps == 3                \* MemoryCache method calls made by the threads
MaxWarehouseCount == 5     \* warehouses of a group whose opportunity is worked out
MaxRequestCount == 60      \* requests of a group whose opportunity is worked out
MaxGroup == 2              \* warehouses whose tiers are filtered and counted
NumWarehouses == 3         \* warehouses of an analysis whose groups are expanded
MaxRadius == 3             \* the largest radius_miles of such an analysis

(***************************************************************************)
(* Program constants.                                                      *)
(***************************************************************************)
PRECACHED_RADII == <<25, 50, 100, 250, 500>>
MAX_RETRIES == 3
RETRY_BASE_DELAY == 5
PRECACHE_TTL == 90000
TIMESTAMP_TTL == 2592000
RESULT_TTL == 1800
AIRTABLE_CHECK_INTERVAL == 300
WAREHOUSES_TTL_CHECKED == 1800
WAREHOUSES_TTL_UNCHECKED == 3600
SCHEDULE_INTERVAL == 24 * 3600
INITIAL_PRECACHE_DELAY == 120
DEFAULT_ANALYSIS_RADIUS == 50

NoRadius == 0              \* radius_miles None (or 0): both are falsy in the code
None == [kind |-> "none", radius |-> 0, at |-> 0]

Radii == {PRECACHED_RADII[n] : n \in DOMAIN PRECACHED_RADII}
ReaderRadii == {NoRadius, 25}
\* the failures injected into a precache run: none, one radius, every radius
FaultPlans == {{}, {100}, Radii}
ReaderFilterKeys == {"no_filters", "{\"state\": \"TX\"}"}

(***************************************************************************)
(* Cache keys.                                                             *)
(***************************************************************************)
LAST_PRECACHE_TIMESTAMP_KEY ==
    [ns |-> "coverage_gap", stem |-> "precache:last_timestamp", radius |-> 0]

get_precache_key(radius) ==
    [ns |-> "coverage_gap", stem |-> "precached:radius_", radius |-> radius]

\* cache_key = f"coverage_gap:{filter_key}{radius_key}"
analysis_cache_key(filter_key, radius_miles) ==
    IF radius_miles # NoRadius
    THEN [ns |-> "coverage_gap", stem |-> filter_key \o "_radius_", radius |-> radius_miles]
    ELSE [ns |-> "coverage_gap", stem |-> filter_key \o "_no_radius", radius |-> 0]

WAREHOUSES_KEY == [ns |-> "warehouses", stem |-> "master_api", radius |-> 0]

WarehousePrefixes == {"warehouses", "driving", "requests", "coverage_gap"}

\* a key of another namespace: "warehouse:detail" does not start with "warehouses:"
FOREIGN_KEY == [ns |-> "warehouse", stem |-> "detail", radius |-> 0]

\* the threads calling the cache, the keys, values and ttl they pass
Threads == {1, 2}
CacheKeySeq == <<WAREHOUSES_KEY, FOREIGN_KEY>>
CacheKeys == {CacheKeySeq[n] : n \in DOMAIN CacheKeySeq}
CacheValues == {[kind |-> "value", radius |-> 0, at |-> 1], [kind |-> "value", radius |-> 0, at |-> 2]}
CacheTtls == {60}

(***************************************************************************)
(* MemoryCache: m = [store, last_airtable_check]; store maps the keys      *)
(* present to [value, expires_at, created_at].                             *)
(***************************************************************************)
EmptyStore == [k \in {} |-> None]

\* an entry that is gone the second it expires, which C12 tells from the code's
MemoryCache_is_expired_on_time(entry, now) == now >= entry.expires_at

MemoryCache_is_expired(entry, now) == now > entry.expires_at

\* what get(key) returns
MemoryCache_get(m, key, now) ==
    IF key \in DOMAIN m.store /\ ~MemoryCache_is_expired(m.store[key], now)
    THEN m.store[key].value
    ELSE None

\* a lookup that evicts whatever it finds, a cache write on every hit, which
\* C10 tells from the code's
MemoryCache_after_get_evicting(m, key, now) ==
    [m EXCEPT !.store = [k \in DOMAIN m.store \ {key} |-> m.store[k]]]

\* what get(key) leaves behind: an expired entry is deleted
MemoryCache_after_get(m, key, now) ==
    IF key \in DOMAIN m.store /\ MemoryCache_is_expired(m.store[key], now)
    THEN [m EXCEPT !.store = [k \in DOMAIN m.store \ {key} |-> m.store[k]]]
    ELSE m

MemoryCache_set(m, key, value, ttl, now) ==
    [m EXCEPT !.store =
        [k \in DOMAIN m.store \cup {key} |->
            IF k = key
            THEN [value |-> value, expires_at |-> now + ttl, created_at |-> now]
            ELSE m.store[k]]]

\* a clearing that spares the precache keys, which C27 tells from the code's
clear_all_but_precache(m) ==
    [m EXCEPT !.store =
        [k \in {kk \in DOMAIN m.store : kk.ns \notin WarehousePrefixes \/ kk.ns = "coverage_gap"} |->
            m.store[k]]]

clear_warehouse_cache(m) ==
    [m EXCEPT !.store =
        [k \in {kk \in DOMAIN m.store : kk.ns \notin WarehousePrefixes} |-> m.store[k]]]

\* get_cache_stats() of a store whose len() was taken as total
cache_stats(total, m, now) ==
    [total_entries |-> total,
     expired_entries |-> Cardinality({k \in DOMAIN m.store : MemoryCache_is_expired(m.store[k], now)}),
     active_entries |->
         total - Cardinality({k \in DOMAIN m.store : MemoryCache_is_expired(m.store[k], now)}),
     warehouse_entries |-> Cardinality({k \in DOMAIN m.store : k.ns = "warehouses"}),
     driving_entries |-> Cardinality({k \in DOMAIN m.store : k.ns = "driving"}),
     request_entries |-> Cardinality({k \in DOMAIN m.store : k.ns = "requests"}),
     coverage_gap_entries |-> Cardinality({k \in DOMAIN m.store : k.ns = "coverage_gap"}),
     last_airtable_check |-> m.last_airtable_check,
     cache_age_hours |-> (now - m.last_airtable_check) \div 3600]

get_cache_stats(m, now) == cache_stats(Cardinality(DOMAIN m.store), m, now)

MemoryCache_delete(m, key) ==
    [m EXCEPT !.store = [k \in DOMAIN m.store \ {key} |-> m.store[k]]]

should_check_airtable(m, now) == now - m.last_airtable_check > AIRTABLE_CHECK_INTERVAL

(***************************************************************************)
(* The analysis pipeline.  Each operator returns [raised, value, m]: did   *)
(* the call raise, what it returned, the cache afterwards.  up says        *)
(* whether the Airtable requests succeed, bad whether the fetched records  *)
(* make the transformation or the analysis raise.  The three request-count *)
(* helpers (get_total_requests_count, get_warehouse_request_counts,        *)
(* get_average_monthly_requests) swallow their own failures and keep their *)
(* results under "requests:" keys that nothing else reads: they are steps  *)
(* of the pipeline that cannot fail, and their entries are left out of the *)
(* store.                                                                  *)
(***************************************************************************)
fetch_warehouses_from_airtable(m, now, up) ==
    LET should_check == should_check_airtable(m, now)
        m1 == IF should_check THEN [m EXCEPT !.last_airtable_check = now]
              ELSE MemoryCache_after_get(m, WAREHOUSES_KEY, now)
        cached == IF should_check THEN None ELSE MemoryCache_get(m, WAREHOUSES_KEY, now)
        records == [kind |-> "warehouses", radius |-> 0, at |-> now]
        ttl == IF should_check THEN WAREHOUSES_TTL_CHECKED ELSE WAREHOUSES_TTL_UNCHECKED
    IN  IF cached # None THEN [raised |-> FALSE, value |-> cached, m |-> m1]
        ELSE IF ~up THEN [raised |-> TRUE, value |-> None, m |-> m1]
        ELSE [raised |-> FALSE, value |-> records,
              m |-> MemoryCache_set(m1, WAREHOUSES_KEY, records, ttl, now)]

\* the CoverageAnalysisResponse built for radius_miles at time now
analysis_result(radius_miles, now) ==
    [kind |-> "analysis",
     radius |-> IF radius_miles # NoRadius THEN radius_miles ELSE DEFAULT_ANALYSIS_RADIUS,
     at |-> now]

\* the pipeline after a cache miss, w being the outcome of the warehouse fetch
analysis_after_fetch(w, now, bad, cache_key, radius_miles) ==
    IF w.raised \/ bad
    THEN [raised |-> TRUE, value |-> None, m |-> w.m, ran |-> TRUE]
    ELSE [raised |-> FALSE, value |-> analysis_result(radius_miles, now),
          m |-> MemoryCache_set(w.m, cache_key, analysis_result(radius_miles, now), RESULT_TTL, now),
          ran |-> TRUE]

\* get_coverage_gap_analysis(filters, radius_miles); ran says whether the
\* pipeline ran (a cache miss)
get_coverage_gap_analysis(m, now, up, bad, filter_key, radius_miles) ==
    LET cache_key == analysis_cache_key(filter_key, radius_miles)
    IN  IF MemoryCache_get(m, cache_key, now) # None
        THEN [raised |-> FALSE, value |-> MemoryCache_get(m, cache_key, now),
              m |-> MemoryCache_after_get(m, cache_key, now), ran |-> FALSE]
        ELSE analysis_after_fetch(
                 fetch_warehouses_from_airtable(MemoryCache_after_get(m, cache_key, now), now, up),
                 now, bad, cache_key, radius_miles)

(***************************************************************************)
(* precache_coverage_gap_analysis(radius).  The call it makes passes the   *)
(* keyword arguments precache_call_kwargs to get_coverage_gap_analysis,    *)
(* whose parameters are get_coverage_gap_analysis_params: Python raises    *)
(* TypeError for a keyword the callee does not declare, before the callee  *)
(* runs, and the except clause turns every exception into False.           *)
(***************************************************************************)
get_coverage_gap_analysis_params == {"filters", "radius_miles"}
precache_call_kwargs == {"filters", "radius_miles", "skip_precache"}

call_binds(kwargs, params) == kwargs \subseteq params

\* the body of the try block after the call has returned or raised r
precache_outcome(r, m, radius, now) ==
    IF ~call_binds(precache_call_kwargs, get_coverage_gap_analysis_params)
    THEN [ok |-> FALSE, m |-> m, ran |-> FALSE]
    ELSE IF r.raised
    THEN [ok |-> FALSE, m |-> r.m, ran |-> r.ran]
    ELSE [ok |-> TRUE, ran |-> r.ran,
          m |-> MemoryCache_set(r.m, get_precache_key(radius), r.value, PRECACHE_TTL, now)]

precache_coverage_gap_analysis(m, now, up, bad, radius) ==
    precache_outcome(get_coverage_gap_analysis(m, now, up, bad, "no_filters", radius),
                     m, radius, now)

\* a timestamp that lives only as long as the precached results, which C7
\* tells from the code's
save_last_precache_timestamp_short(m, now) ==
    MemoryCache_set(m, LAST_PRECACHE_TIMESTAMP_KEY,
                    [kind |-> "timestamp", radius |-> 0, at |-> now], PRECACHE_TTL, now)

save_last_precache_timestamp(m, now) ==
    MemoryCache_set(m, LAST_PRECACHE_TIMESTAMP_KEY,
                    [kind |-> "timestamp", radius |-> 0, at |-> now], TIMESTAMP_TTL, now)

get_last_precache_timestamp(m, now) == MemoryCache_get(m, LAST_PRECACHE_TIMESTAMP_KEY, now)

status_of(success) == IF success THEN "success" ELSE "failed"

\* a backoff that grows linearly (5, 10, 15), which C3 tells from the code's
retry_delay_linear(retry_attempt) == RETRY_BASE_DELAY * retry_attempt

retry_delay(retry_attempt) == RETRY_BASE_DELAY * (2 ^ (retry_attempt - 1))

\* [radius for radius, status in results.items() if status == "failed"]:
\* the dict's insertion order is the order of PRECACHED_RADII
failed_radii_of(results) ==
    SelectSeq(PRECACHED_RADII, LAMBDA r : r \in DOMAIN results /\ results[r] = "failed")

(***************************************************************************)
(* Server-sent events.                                                     *)
(***************************************************************************)
format_log(message) == [type |-> "log", msg |-> message, value |-> None]
format_data(data) == [type |-> "data", msg |-> "", value |-> data]
format_error(error) == [type |-> "error", msg |-> error, value |-> None]

progress_logs(n, message) == [k \in 1..n |-> format_log(message)]

(***************************************************************************)
(* State.                                                                  *)
(***************************************************************************)
VARIABLES
    clock,        \* time.time()
    cache,        \* the global _cache: [store, last_airtable_check]
    batch,        \* the precache_all_radii call in progress
    pstream,      \* the precache_all_radii_stream generator in progress
    reader,       \* the latest synchronous get_coverage_gap_analysis call
    sse,          \* the get_coverage_gap_analysis_stream generator in progress
    counters,     \* [runs, reads, ticks, jobs, delayed, ops]: how much of each bound is used
    mc,           \* the threads inside MemoryCache's methods: [lock, th, written]
    args,         \* the arguments a pure function of the analysis is applied to
    returned      \* what it returned

vars == <<clock, cache, batch, pstream, reader, sse, counters, mc, args, returned>>

\* the state of the callers of the analysis, and the state beside them
callers == <<batch, pstream, reader, sse>>
aside == <<mc, args, returned>>

NoResults == [r \in {} |-> "failed"]
NoCall == [round |-> 0, radius |-> NoRadius, ok |-> FALSE, healthy |-> FALSE, at |-> 0]

\* A precache run.  fault: the radii for whose analysis the upstream
\* collaborators fail during this run; calls: the <<round, radius>> invoked;
\* began/slept: when the latest asyncio.sleep began, the delays asked of it.
IdleRun ==
    [pc |-> "idle", i |-> 0, results |-> NoResults, retry_attempt |-> 0,
     failed_radii |-> <<>>, began |-> 0, slept |-> <<>>,
     calls |-> <<>>, last_call |-> NoCall, fault |-> {},
     ts_writes |-> 0, events |-> <<>>, by |-> "none"]

IdleReader ==
    [pc |-> "idle", filter_key |-> "no_filters", radius |-> NoRadius,
     hit |-> FALSE, ran |-> FALSE, cached |-> None, ret |-> None,
     events |-> <<>>, at |-> 0]

\* A thread inside a MemoryCache method.  snap is the store when it took
\* the lock; entry, keys and total are the method's locals.
IdleThread ==
    [pc |-> "idle", op |-> "none", key |-> WAREHOUSES_KEY, value |-> None, ttl |-> 0,
     snap |-> EmptyStore, entry |-> None, keys |-> <<>>, total |-> 0, ret |-> None]

\* lock: the thread holding self._lock (0: nobody); written: for each key the
\* latest set of it that no set, delete or clear has undone, [value, ttl, at]
IdleCache == [lock |-> 0, th |-> [t \in Threads |-> IdleThread], written |-> EmptyStore]

Init ==
    /\ clock = StartTime
    /\ cache = [store |-> EmptyStore, last_airtable_check |-> 0]
    /\ batch = IdleRun
    /\ pstream = IdleRun
    /\ reader = IdleReader
    /\ sse = IdleReader
    /\ counters = [runs |-> 0, reads |-> 0, ticks |-> 0, jobs |-> 0, delayed |-> 0, ops |-> 0]
    /\ mc = IdleCache
    /\ args = None
    /\ returned = None

(***************************************************************************)
(* The environment: time passes, and the Airtable webhook (or the admin    *)
(* route) invalidates the cache.  Whether Airtable answers is an input of  *)
(* each step that asks it.                                                 *)
(***************************************************************************)
\* the moments at which a lookup changes its answer: an entry's last valid
\* second and the first second past it, the next Airtable check
TickTargets ==
    {cache.store[k].expires_at : k \in DOMAIN cache.store}
    \cup {cache.store[k].expires_at + 1 : k \in DOMAIN cache.store}
    \cup {cache.last_airtable_check + AIRTABLE_CHECK_INTERVAL + 1}

Tick ==
    /\ counters.ticks < MaxTicks
    /\ \E t \in TickTargets : t > clock /\ clock' = t
    /\ counters' = [counters EXCEPT !.ticks = counters.ticks + 1]
    /\ UNCHANGED <<cache, batch, pstream, reader, sse, aside>>

invalidate_warehouse_cache ==
    /\ cache' = clear_warehouse_cache(cache)
    /\ cache' # cache
    /\ UNCHANGED <<clock, batch, pstream, reader, sse, counters, aside>>

(***************************************************************************)
(* precache_all_radii and precache_all_radii_stream: the same loop, the    *)
(* second yielding events.  Each operator maps a run (and the cache) to    *)
(* the run after one step.                                                 *)
(***************************************************************************)
emit(run, streaming, evs) ==
    IF streaming THEN [run EXCEPT !.events = run.events \o evs] ELSE run

run_start(streaming, fault) ==
    emit([IdleRun EXCEPT !.pc = "initial", !.i = 1, !.fault = fault],
         streaming, <<format_log("Starting pre-cache job for all radii")>>)

\* the bookkeeping around one call of precache_coverage_gap_analysis(radius)
\* whose outcome is o; the result is [run, m]
run_record(run, o, now, streaming, radius, before, after_ok, after_failed) ==
    [m |-> o.m,
     run |-> emit([run EXCEPT
                     !.results = [r \in DOMAIN run.results \cup {radius} |->
                                    IF r = radius THEN status_of(o.ok) ELSE run.results[r]],
                     !.calls = Append(run.calls, <<run.retry_attempt, radius>>),
                     !.last_call = [round |-> run.retry_attempt, radius |-> radius, ok |-> o.ok,
                                    healthy |-> radius \notin run.fault, at |-> now],
                     !.i = run.i + 1],
                  streaming,
                  <<format_log(before), format_log(IF o.ok THEN after_ok ELSE after_failed)>>)]

\* one call of precache_coverage_gap_analysis(radius), the collaborators
\* healthy unless the run's fault plan names the radius
run_attempt(run, m, now, streaming, radius, before, after_ok, after_failed) ==
    run_record(run, precache_coverage_gap_analysis(m, now, radius \notin run.fault, FALSE, radius),
               now, streaming, radius, before, after_ok, after_failed)

\* the loop moves on to pc once its last element is done
run_loop(o, last, pc) == [m |-> o.m, run |-> IF last THEN [o.run EXCEPT !.pc = pc] ELSE o.run]

\* a loop that a failed attempt ends
run_loop_aborting(o, last, pc) == run_loop(o, last \/ ~o.run.last_call.ok, pc)

\* an initial loop that a failed radius aborts, which C5 tells from the code's
run_initial_attempt_aborting(run, m, now, streaming) ==
    run_loop_aborting(run_attempt(run, m, now, streaming, PRECACHED_RADII[run.i],
                                  "Pre-caching radius", "Successfully cached", "Failed to cache"),
                      run.i = Len(PRECACHED_RADII), "retry_check")

\* for index, radius in enumerate(PRECACHED_RADII)
run_initial_attempt(run, m, now, streaming) ==
    run_loop(run_attempt(run, m, now, streaming, PRECACHED_RADII[run.i],
                         "Pre-caching radius", "Successfully cached", "Failed to cache"),
             run.i = Len(PRECACHED_RADII), "retry_check")

\* the head of the while loop, up to asyncio.sleep
run_retry_check(run, now, streaming) ==
    LET failed_radii == failed_radii_of(run.results)
        attempt == run.retry_attempt + 1
    IN  IF run.retry_attempt < MAX_RETRIES /\ failed_radii # <<>>
        THEN emit([run EXCEPT !.pc = "sleeping", !.retry_attempt = attempt,
                              !.failed_radii = failed_radii, !.i = 1, !.began = now,
                              !.slept = Append(run.slept, retry_delay(attempt))],
                  streaming,
                  <<format_log("Retrying failed radii"), format_log("Waiting before retry")>>)
        ELSE [run EXCEPT !.pc = "finish"]

\* asyncio.sleep(retry_delay) returns once retry_delay seconds have passed
run_wake(run) == [run EXCEPT !.pc = "retrying"]

wake_time(run) == run.began + run.slept[Len(run.slept)]

later(a, b) == IF a >= b THEN a ELSE b

\* for failed_radius in failed_radii
run_retry_attempt(run, m, now, streaming) ==
    run_loop(run_attempt(run, m, now, streaming, run.failed_radii[run.i],
                         "Retrying radius", "Retry successful", "Retry failed"),
             run.i = Len(run.failed_radii), "retry_check")

\* a count that takes every radius for one of the status, which C28 tells from
\* the code's
count_every_status(results, status) == Cardinality(DOMAIN results)

count_status(results, status) == Cardinality({r \in DOMAIN results : results[r] = status})

\* a final payload that leaves the failed radii out of the status map,
\* which C9 tells from the code's
final_data_successes_only(run, now) ==
    [kind |-> "precache",
     results |-> [r \in {q \in DOMAIN run.results : run.results[q] = "success"} |-> "success"],
     total |-> Cardinality(DOMAIN run.results),
     successful |-> count_status(run.results, "success"),
     failed |-> Cardinality(DOMAIN run.results) - count_status(run.results, "success"),
     retriesUsed |-> run.retry_attempt,
     lastPrecacheTimestamp |-> now]

final_data(run, now) ==
    [kind |-> "precache", results |-> run.results,
     total |-> Cardinality(DOMAIN run.results),
     successful |-> count_status(run.results, "success"),
     failed |-> Cardinality(DOMAIN run.results) - count_status(run.results, "success"),
     retriesUsed |-> IF count_status(run.results, "success") < Cardinality(DOMAIN run.results)
                     THEN run.retry_attempt ELSE 0,
     lastPrecacheTimestamp |-> now]

\* a completion that records the timestamp only when no radius is left
\* 'failed', which C6 tells from the code's
run_finish_unless_failed(run, m, now, streaming) ==
    LET clean == failed_radii_of(run.results) = <<>>
    IN  [m |-> IF clean THEN save_last_precache_timestamp(m, now) ELSE m,
         run |-> emit([run EXCEPT !.pc = "done",
                                  !.ts_writes = IF clean THEN run.ts_writes + 1 ELSE run.ts_writes],
                      streaming,
                      <<format_log("Pre-cache job completed"), format_data(final_data(run, now))>>)]

\* save_last_precache_timestamp(), then the return (the final events)
run_finish(run, m, now, streaming) ==
    [m |-> save_last_precache_timestamp(m, now),
     run |-> emit([run EXCEPT !.pc = "done", !.ts_writes = run.ts_writes + 1],
                  streaming,
                  <<format_log("Pre-cache job completed"), format_data(final_data(run, now))>>)]

InProgress(run) == run.pc \notin {"idle", "done"}

RunStart(run) ==
    /\ ~InProgress(run)
    /\ counters.runs < MaxRuns
    /\ counters' = [counters EXCEPT !.runs = counters.runs + 1]

BatchStart ==
    /\ RunStart(batch)
    /\ \E fault \in FaultPlans : batch' = run_start(FALSE, fault)
    /\ UNCHANGED <<clock, cache, pstream, reader, sse, aside>>

BatchInitialAttempt ==
    /\ batch.pc = "initial"
    /\ LET o == run_initial_attempt(batch, cache, clock, FALSE)
       IN  batch' = o.run /\ cache' = o.m
    /\ UNCHANGED <<clock, pstream, reader, sse, counters, aside>>

BatchRetryCheck ==
    /\ batch.pc = "retry_check"
    /\ batch' = run_retry_check(batch, clock, FALSE)
    /\ UNCHANGED <<clock, cache, pstream, reader, sse, counters, aside>>

BatchWake ==
    /\ batch.pc = "sleeping"
    /\ clock' = later(clock, wake_time(batch))
    /\ batch' = run_wake(batch)
    /\ UNCHANGED <<cache, pstream, reader, sse, counters, aside>>

BatchRetryAttempt ==
    /\ batch.pc = "retrying"
    /\ LET o == run_retry_attempt(batch, cache, clock, FALSE)
       IN  batch' = o.run /\ cache' = o.m
    /\ UNCHANGED <<clock, pstream, reader, sse, counters, aside>>

BatchFinish ==
    /\ batch.pc = "finish"
    /\ LET o == run_finish(batch, cache, clock, FALSE)
       IN  batch' = o.run /\ cache' = o.m
    /\ UNCHANGED <<clock, pstream, reader, sse, counters, aside>>

StreamStart ==
    /\ RunStart(pstream)
    /\ \E fault \in FaultPlans : pstream' = run_start(TRUE, fault)
    /\ UNCHANGED <<clock, cache, batch, reader, sse, aside>>

StreamInitialAttempt ==
    /\ pstream.pc = "initial"
    /\ LET o == run_initial_attempt(pstream, cache, clock, TRUE)
       IN  pstream' = o.run /\ cache' = o.m
    /\ UNCHANGED <<clock, batch, reader, sse, counters, aside>>

StreamRetryCheck ==
    /\ pstream.pc = "retry_check"
    /\ pstream' = run_retry_check(pstream, clock, TRUE)
    /\ UNCHANGED <<clock, cache, batch, reader, sse, counters, aside>>

StreamWake ==
    /\ pstream.pc = "sleeping"
    /\ clock' = later(clock, wake_time(pstream))
    /\ pstream' = run_wake(pstream)
    /\ UNCHANGED <<cache, batch, reader, sse, counters, aside>>

StreamRetryAttempt ==
    /\ pstream.pc = "retrying"
    /\ LET o == run_retry_attempt(pstream, cache, clock, TRUE)
       IN  pstream' = o.run /\ cache' = o.m
    /\ UNCHANGED <<clock, batch, reader, sse, counters, aside>>

StreamFinish ==
    /\ pstream.pc = "finish"
    /\ LET o == run_finish(pstream, cache, clock, TRUE)
       IN  pstream' = o.run /\ cache' = o.m
    /\ UNCHANGED <<clock, batch, reader, sse, counters, aside>>

(***************************************************************************)
(* MemoryCache's methods, statement by statement, as threads run them.     *)
(* Each body is a with self._lock block: a thread enters it only while no  *)
(* thread holds the lock, and leaves it, returning or raising, with the    *)
(* lock released.                                                          *)
(***************************************************************************)
\* a lock that excludes nobody, which C14 tells from the code's
lock_never_held(lock) == lock = lock

lock_free(lock) == lock = 0

\* the calls a thread makes
Calls ==
    {[op |-> "get", key |-> k, value |-> None, ttl |-> 0] : k \in CacheKeys}
    \cup {[op |-> "set", key |-> k, value |-> v, ttl |-> x] :
             k \in CacheKeys, v \in CacheValues, x \in CacheTtls}
    \cup {[op |-> "delete", key |-> k, value |-> None, ttl |-> 0] : k \in CacheKeys}
    \cup {[op |-> "clear_warehouse_cache", key |-> WAREHOUSES_KEY, value |-> None, ttl |-> 0],
          [op |-> "get_cache_stats", key |-> WAREHOUSES_KEY, value |-> None, ttl |-> 0]}

\* the first statement of each method's with block
first_pc(op) ==
    CASE op = "get" -> "get_test"
      [] op = "set" -> "set_store"
      [] op = "delete" -> "delete_pop"
      [] op = "clear_warehouse_cache" -> "clear_list"
      [] op = "get_cache_stats" -> "stats_len"

\* a clear that takes every key, which C13 tells from the code's
keys_to_delete_every(store) == SelectSeq(CacheKeySeq, LAMBDA k : k \in DOMAIN store)

\* [key for key in self._cache.keys() if key.startswith((...))]
keys_to_delete(store) ==
    SelectSeq(CacheKeySeq, LAMBDA k : k \in DOMAIN store /\ k.ns \in WarehousePrefixes)

\* mc with thread t replaced, the lock and the record of sets as given
mc_with(t, thread, lock, written) ==
    [lock |-> lock, th |-> [mc.th EXCEPT ![t] = thread], written |-> written]

\* thread t leaves its with block, returning ret (pc "done") or raising
\* KeyError (pc "raised"); the lock is released either way
mc_leave(t, pc, ret, written) ==
    mc_with(t, [mc.th[t] EXCEPT !.pc = pc, !.ret = ret], 0, written)

mc_goto(t, thread) == mc_with(t, thread, mc.lock, mc.written)

store_without(store, key) == [k \in DOMAIN store \ {key} |-> store[k]]

\* a thread calls a method and reaches its with statement
CacheCall(t) ==
    /\ mc.th[t].pc \in {"idle", "done", "raised"}
    /\ counters.ops < MaxOps
    /\ \E call \in Calls :
         mc' = mc_goto(t, [IdleThread EXCEPT !.pc = "waiting", !.op = call.op, !.key = call.key,
                                            !.value = call.value, !.ttl = call.ttl])
    /\ counters' = [counters EXCEPT !.ops = counters.ops + 1]
    /\ UNCHANGED <<clock, cache, callers, args, returned>>

\* with self._lock:
CacheAcquire(t) ==
    /\ mc.th[t].pc = "waiting"
    /\ lock_free(mc.lock)
    /\ mc' = mc_with(t, [mc.th[t] EXCEPT !.pc = first_pc(mc.th[t].op), !.snap = cache.store],
                     t, mc.written)
    /\ UNCHANGED <<clock, cache, callers, counters, args, returned>>

\* get: if key in self._cache
CacheGetTest(t) ==
    /\ mc.th[t].pc = "get_test"
    /\ mc' = IF mc.th[t].key \in DOMAIN cache.store
             THEN mc_goto(t, [mc.th[t] EXCEPT !.pc = "get_entry"])
             ELSE mc_leave(t, "done", None, mc.written)
    /\ UNCHANGED <<clock, cache, callers, counters, args, returned>>

\* get: entry = self._cache[key]
CacheGetEntry(t) ==
    /\ mc.th[t].pc = "get_entry"
    /\ mc' = IF mc.th[t].key \in DOMAIN cache.store
             THEN mc_goto(t, [mc.th[t] EXCEPT !.pc = "get_check",
                                              !.entry = cache.store[mc.th[t].key]])
             ELSE mc_leave(t, "raised", None, mc.written)
    /\ UNCHANGED <<clock, cache, callers, counters, args, returned>>

\* get: return entry['value'] unless expired, else del self._cache[key]; return None
CacheGetCheck(t) ==
    /\ mc.th[t].pc = "get_check"
    /\ IF ~MemoryCache_is_expired(mc.th[t].entry, clock)
       THEN cache' = cache /\ mc' = mc_leave(t, "done", mc.th[t].entry.value, mc.written)
       ELSE IF mc.th[t].key \in DOMAIN cache.store
       THEN /\ cache' = [cache EXCEPT !.store = store_without(cache.store, mc.th[t].key)]
            /\ mc' = mc_leave(t, "done", None, mc.written)
       ELSE cache' = cache /\ mc' = mc_leave(t, "raised", None, mc.written)
    /\ UNCHANGED <<clock, callers, counters, args, returned>>

\* set: self._cache[key] = {'value': ..., 'expires_at': ..., 'created_at': ...}
CacheSetStore(t) ==
    /\ mc.th[t].pc = "set_store"
    /\ cache' = MemoryCache_set(cache, mc.th[t].key, mc.th[t].value, mc.th[t].ttl, clock)
    /\ mc' = mc_leave(t, "done", None,
                      [k \in DOMAIN mc.written \cup {mc.th[t].key} |->
                         IF k = mc.th[t].key
                         THEN [value |-> mc.th[t].value, ttl |-> mc.th[t].ttl, at |-> clock]
                         ELSE mc.written[k]])
    /\ UNCHANGED <<clock, callers, counters, args, returned>>

\* delete: self._cache.pop(key, None)
CacheDeletePop(t) ==
    /\ mc.th[t].pc = "delete_pop"
    /\ cache' = MemoryCache_delete(cache, mc.th[t].key)
    /\ mc' = mc_leave(t, "done", None, store_without(mc.written, mc.th[t].key))
    /\ UNCHANGED <<clock, callers, counters, args, returned>>

\* clear_warehouse_cache: keys_to_delete = [...]
CacheClearList(t) ==
    /\ mc.th[t].pc = "clear_list"
    /\ mc' = IF keys_to_delete(cache.store) = <<>>
             THEN mc_leave(t, "done", None, mc.written)
             ELSE mc_goto(t, [mc.th[t] EXCEPT !.pc = "clear_del",
                                              !.keys = keys_to_delete(cache.store)])
    /\ UNCHANGED <<clock, cache, callers, counters, args, returned>>

\* clear_warehouse_cache: for key in keys_to_delete: del self._cache[key]
CacheClearDel(t) ==
    /\ mc.th[t].pc = "clear_del"
    /\ IF Head(mc.th[t].keys) \notin DOMAIN cache.store
       THEN cache' = cache /\ mc' = mc_leave(t, "raised", None, mc.written)
       ELSE /\ cache' = [cache EXCEPT !.store = store_without(cache.store, Head(mc.th[t].keys))]
            /\ mc' = IF Tail(mc.th[t].keys) = <<>>
                     THEN mc_leave(t, "done", None,
                                   store_without(mc.written, Head(mc.th[t].keys)))
                     ELSE mc_with(t, [mc.th[t] EXCEPT !.keys = Tail(mc.th[t].keys)], mc.lock,
                                  store_without(mc.written, Head(mc.th[t].keys)))
    /\ UNCHANGED <<clock, callers, counters, args, returned>>

\* get_cache_stats: total_entries = len(self._cache)
CacheStatsLen(t) ==
    /\ mc.th[t].pc = "stats_len"
    /\ mc' = mc_goto(t, [mc.th[t] EXCEPT !.pc = "stats_rest",
                                         !.total = Cardinality(DOMAIN cache.store)])
    /\ UNCHANGED <<clock, cache, callers, counters, args, returned>>

\* get_cache_stats: the other counts, and the return
CacheStatsRest(t) ==
    /\ mc.th[t].pc = "stats_rest"
    /\ mc' = mc_leave(t, "done", cache_stats(mc.th[t].total, cache, clock), mc.written)
    /\ UNCHANGED <<clock, cache, callers, counters, args, returned>>

(***************************************************************************)
(* The three ways the precache job is started: the scheduler's daily cron  *)
(* job, the task lifespan creates at startup, the manual route.  Only the  *)
(* first goes through the scheduler, which starts no second instance of a  *)
(* job while one it started is running (max_instances is 1); the other two *)
(* call the job directly.  The model follows one precache_all_radii call   *)
(* and one precache_all_radii_stream generator at a time.                  *)
(***************************************************************************)
JobStart ==
    /\ counters.jobs < MaxJobs
    /\ counters' = [counters EXCEPT !.jobs = counters.jobs + 1]

\* scheduler.add_job(precache_all_radii, trigger=CronTrigger(hour=3, minute=0))
CronPrecache ==
    /\ JobStart
    /\ ~InProgress(batch)
    /\ \E fault \in FaultPlans : batch' = [run_start(FALSE, fault) EXCEPT !.by = "cron"]
    /\ UNCHANGED <<clock, cache, pstream, reader, sse, aside>>

\* delayed_initial_precache: asyncio.sleep(120), then precache_all_radii()
DelayedInitialPrecache ==
    /\ counters.delayed = 0
    /\ counters.jobs < MaxJobs
    /\ ~InProgress(batch)
    /\ clock' = later(clock, StartTime + INITIAL_PRECACHE_DELAY)
    /\ \E fault \in FaultPlans : batch' = [run_start(FALSE, fault) EXCEPT !.by = "startup"]
    /\ counters' = [counters EXCEPT !.jobs = counters.jobs + 1, !.delayed = 1]
    /\ UNCHANGED <<cache, pstream, reader, sse, aside>>

\* POST /coverage_gap/precache: StreamingResponse(precache_all_radii_stream())
trigger_precache ==
    /\ JobStart
    /\ ~InProgress(pstream)
    /\ \E fault \in FaultPlans : pstream' = [run_start(TRUE, fault) EXCEPT !.by = "manual"]
    /\ UNCHANGED <<clock, cache, batch, reader, sse, aside>>

(***************************************************************************)
(* get_coverage_gap_analysis, called as a function.                        *)
(***************************************************************************)
ReaderCall ==
    /\ counters.reads < MaxReads
    /\ \E fk \in ReaderFilterKeys, r \in ReaderRadii, up \in BOOLEAN, bad \in BOOLEAN :
         LET o == get_coverage_gap_analysis(cache, clock, up, bad, fk, r)
         IN  /\ reader' = [IdleReader EXCEPT
                             !.pc = IF o.raised THEN "raised" ELSE "done",
                             !.filter_key = fk, !.radius = r, !.hit = ~o.ran,
                             !.ran = o.ran, !.ret = o.value, !.at = clock]
             /\ cache' = o.m
    /\ counters' = [counters EXCEPT !.reads = counters.reads + 1]
    /\ UNCHANGED <<clock, batch, pstream, sse, aside>>

(***************************************************************************)
(* get_coverage_gap_analysis_stream: one action per step of the generator, *)
(* each appending the events the step yields, in order.                    *)
(***************************************************************************)
sse_emit(g, evs) == [g EXCEPT !.events = g.events \o evs]

\* a failure that ends the stream without an error event, which C8 tells
\* from the code's
sse_raise_silent(g, evs) == [sse_emit(g, evs) EXCEPT !.pc = "raised"]

sse_raise(g, evs) ==
    [sse_emit(g, evs \o <<format_error("Coverage gap analysis failed")>>) EXCEPT !.pc = "raised"]

\* the cache lookup, up to the first yield
SseStart ==
    /\ sse.pc \in {"idle", "done", "raised"}
    /\ counters.reads < MaxReads
    /\ \E fk \in ReaderFilterKeys, r \in ReaderRadii :
         LET cache_key == analysis_cache_key(fk, r)
             cached == MemoryCache_get(cache, cache_key, clock)
             g == [IdleReader EXCEPT !.filter_key = fk, !.radius = r, !.at = clock]
         IN  /\ cache' = MemoryCache_after_get(cache, cache_key, clock)
             /\ sse' = IF cached # None
                       THEN sse_emit([g EXCEPT !.pc = "cached_data", !.hit = TRUE, !.cached = cached],
                                     <<format_log("Using cached results")>>)
                       ELSE sse_emit([g EXCEPT !.pc = "fetch_warehouses"],
                                     <<format_log("Fetching warehouses from Airtable...")>>)
    /\ counters' = [counters EXCEPT !.reads = counters.reads + 1]
    /\ UNCHANGED <<clock, batch, pstream, reader, aside>>

\* yield format_data(cached); return
SseCachedData ==
    /\ sse.pc = "cached_data"
    /\ sse' = sse_emit([sse EXCEPT !.pc = "done", !.ret = sse.cached], <<format_data(sse.cached)>>)
    /\ UNCHANGED <<clock, cache, batch, pstream, reader, counters, aside>>

\* Step 1
SseFetchWarehouses ==
    /\ sse.pc = "fetch_warehouses"
    /\ \E up \in BOOLEAN :
         LET o == fetch_warehouses_from_airtable(cache, clock, up)
             g == [sse EXCEPT !.ran = TRUE]
         IN  /\ cache' = o.m
             /\ sse' = IF o.raised THEN sse_raise(g, <<>>)
                       ELSE sse_emit([g EXCEPT !.pc = "total_requests"],
                                     <<format_log("Fetched warehouses from Airtable"),
                                       format_log("Calculating total request count...")>>)
    /\ UNCHANGED <<clock, batch, pstream, reader, counters, aside>>

\* Step 2
SseTotalRequests ==
    /\ sse.pc = "total_requests"
    /\ sse' = sse_emit([sse EXCEPT !.pc = "warehouse_counts"],
                       <<format_log("Total requests"),
                         format_log("Fetching request counts per warehouse...")>>)
    /\ UNCHANGED <<clock, cache, batch, pstream, reader, counters, aside>>

\* Step 3
SseWarehouseCounts ==
    /\ sse.pc = "warehouse_counts"
    /\ sse' = sse_emit([sse EXCEPT !.pc = "transform"],
                       <<format_log("Fetched request counts"),
                         format_log("Transforming warehouse data...")>>)
    /\ UNCHANGED <<clock, cache, batch, pstream, reader, counters, aside>>

\* Steps 4 and 5: transform (a progress line per 500 warehouses), filter
SseTransform ==
    /\ sse.pc = "transform"
    /\ \E bad \in BOOLEAN, n \in 0..MaxProgress :
         sse' = IF bad THEN sse_raise(sse, progress_logs(n, "Transformed k/n warehouses..."))
                ELSE sse_emit([sse EXCEPT !.pc = "average"],
                              progress_logs(n, "Transformed k/n warehouses...")
                              \o <<format_log("Transformed warehouses")>>
                              \o (IF sse.filter_key # "no_filters"
                                  THEN <<format_log("Applying filters"), format_log("After filtering")>>
                                  ELSE <<>>)
                              \o <<format_log("Calculating average monthly requests...")>>)
    /\ UNCHANGED <<clock, cache, batch, pstream, reader, counters, aside>>

\* Step 6
SseAverage ==
    /\ sse.pc = "average"
    /\ sse' = sse_emit([sse EXCEPT !.pc = "build"],
                       <<format_log("Average monthly requests"),
                         format_log("Loading all US cities from database...")>>)
    /\ UNCHANGED <<clock, cache, batch, pstream, reader, counters, aside>>

\* Steps 7 to 11: cities, grouping, radius expansion, analysis, cache, data
SseBuild ==
    /\ sse.pc = "build"
    /\ \E bad \in BOOLEAN, n \in 0..MaxProgress :
         LET result == analysis_result(sse.radius, clock)
             logs == <<format_log("Loaded US cities"), format_log("Grouping warehouses by city..."),
                       format_log("Grouped warehouses into cities")>>
                     \o (IF sse.radius # NoRadius /\ sse.radius > 0
                         THEN <<format_log("Expanding coverage"), format_log("Processing warehouses"),
                                format_log("Expanding existing warehouse cities..."),
                                format_log("Checking all US cities for nearby warehouses...")>>
                              \o progress_logs(n, "Processing city k/n...")
                              \o <<format_log("Radius expansion completed")>>
                         ELSE <<>>)
                     \o <<format_log("Creating coverage analysis for all US cities...")>>
                     \o progress_logs(n, "Analyzing city k/n...")
         IN  IF bad
             THEN cache' = cache /\ sse' = sse_raise(sse, logs)
             ELSE /\ cache' = MemoryCache_set(cache, analysis_cache_key(sse.filter_key, sse.radius),
                                              result, RESULT_TTL, clock)
                  /\ sse' = sse_emit([sse EXCEPT !.pc = "done", !.ret = result],
                                     logs \o <<format_log("Finalizing results..."),
                                               format_log("Analysis complete!"),
                                               format_data(result)>>)
    /\ UNCHANGED <<clock, batch, pstream, reader, counters, aside>>

BatchNext ==
    \/ BatchStart \/ BatchInitialAttempt \/ BatchRetryCheck
    \/ BatchWake \/ BatchRetryAttempt \/ BatchFinish

StreamNext ==
    \/ StreamStart \/ StreamInitialAttempt \/ StreamRetryCheck
    \/ StreamWake \/ StreamRetryAttempt \/ StreamFinish

SseNext ==
    \/ SseStart \/ SseCachedData \/ SseFetchWarehouses \/ SseTotalRequests
    \/ SseWarehouseCounts \/ SseTransform \/ SseAverage \/ SseBuild

EnvNext == Tick \/ invalidate_warehouse_cache

\* the precache job, batch and streamed
Next == BatchNext \/ StreamNext \/ EnvNext

Spec == Init /\ [][Next]_vars

\* the streamed reader
ReadersNext == SseNext \/ EnvNext

SpecReaders == Init /\ [][ReadersNext]_vars

\* the precache job as the application starts it
BatchSteps ==
    \/ BatchInitialAttempt \/ BatchRetryCheck \/ BatchWake \/ BatchRetryAttempt \/ BatchFinish

StreamSteps ==
    \/ StreamInitialAttempt \/ StreamRetryCheck \/ StreamWake \/ StreamRetryAttempt \/ StreamFinish

JobsNext ==
    \/ CronPrecache \/ DelayedInitialPrecache \/ trigger_precache
    \/ BatchSteps \/ StreamSteps \/ EnvNext

SpecJobs == Init /\ [][JobsNext]_vars

\* threads calling the shared MemoryCache
CacheNext ==
    \/ \E t \in Threads :
         \/ CacheCall(t) \/ CacheAcquire(t)
         \/ CacheGetTest(t) \/ CacheGetEntry(t) \/ CacheGetCheck(t)
         \/ CacheSetStore(t) \/ CacheDeletePop(t)
         \/ CacheClearList(t) \/ CacheClearDel(t)
         \/ CacheStatsLen(t) \/ CacheStatsRest(t)
    \/ Tick

SpecCache == Init /\ [][CacheNext]_vars

\* the batch precache job and the readers it is meant to serve
ServeNext == BatchNext \/ ReaderCall \/ EnvNext

SpecServe == Init /\ [][ServeNext]_vars

(***************************************************************************)
(* The figures get_coverage_gap_analysis, and get_coverage_gap_analysis_   *)
(* stream with the same statements, work out for one location's group.     *)
(* Each is a function of the group alone; the specifications below draw    *)
(* the group from a bounded set and apply the function to it.              *)
(***************************************************************************)
\* the program at rest, but for the call under study
AtRest ==
    /\ clock = StartTime
    /\ cache = [store |-> EmptyStore, last_airtable_check |-> 0]
    /\ batch = IdleRun
    /\ pstream = IdleRun
    /\ reader = IdleReader
    /\ sse = IdleReader
    /\ counters = [runs |-> 0, reads |-> 0, ticks |-> 0, jobs |-> 0, delayed |-> 0, ops |-> 0]
    /\ mc = IdleCache

AnalysisFunctions == {"get_coverage_gap_analysis", "get_coverage_gap_analysis_stream"}

\* avg_requests_per_warehouse > bound, where avg_requests_per_warehouse is
\* total_requests_in_city / warehouse_count if warehouse_count > 0 else 0:
\* the quotient of two integers exceeds bound exactly when the dividend
\* exceeds bound times the divisor
avg_requests_exceeds(warehouse_count, total_requests_in_city, bound) ==
    IF warehouse_count > 0
    THEN total_requests_in_city > bound * warehouse_count
    ELSE 0 > bound

\* the ladder without its single-warehouse rungs, which C15 tells from the code's
expansion_opportunity_by_average(warehouse_count, total_requests_in_city) ==
    IF avg_requests_exceeds(warehouse_count, total_requests_in_city, 25) THEN "High"
    ELSE IF warehouse_count < 3 /\ total_requests_in_city > 15 THEN "Moderate"
    ELSE IF avg_requests_exceeds(warehouse_count, total_requests_in_city, 15) THEN "Moderate"
    ELSE "None"

\* the if/elif ladder that sets expansion_opportunity
expansion_opportunity(warehouse_count, total_requests_in_city) ==
    IF avg_requests_exceeds(warehouse_count, total_requests_in_city, 25) THEN "High"
    ELSE IF warehouse_count = 1 /\ total_requests_in_city > 10 THEN "High"
    ELSE IF warehouse_count = 1 /\ total_requests_in_city > 3 THEN "Moderate"
    ELSE IF warehouse_count < 3 /\ total_requests_in_city > 15 THEN "Moderate"
    ELSE IF avg_requests_exceeds(warehouse_count, total_requests_in_city, 15) THEN "Moderate"
    ELSE IF total_requests_in_city = 0 THEN "None"
    ELSE "None"

\* a test that sees a gap only where there is no warehouse at all, which C30
\* tells from the code's
has_no_warehouse(warehouse_count, total_requests_in_city) == warehouse_count < 1

\* has_coverage_gap = warehouse_count < 2 or avg_requests_per_warehouse > 20
has_coverage_gap(warehouse_count, total_requests_in_city) ==
    warehouse_count < 2 \/ avg_requests_exceeds(warehouse_count, total_requests_in_city, 20)

\* a group's size and request total: a location without a group has neither
OpportunityInputs ==
    {[fn |-> "expansion_opportunity", warehouse_count |-> n, total_requests |-> r] :
        n \in 1..MaxWarehouseCount, r \in 0..MaxRequestCount}
    \cup {[fn |-> "expansion_opportunity", warehouse_count |-> 0, total_requests |-> 0]}

InitOpportunity ==
    /\ AtRest
    /\ args \in OpportunityInputs
    /\ returned = None

\* either function reaches the ladder for the group
Opportunity ==
    /\ args \in OpportunityInputs
    /\ returned = None
    /\ \E by \in AnalysisFunctions :
         returned' = [by |-> by,
                      value |-> expansion_opportunity(args.warehouse_count, args.total_requests),
                      warehouseCount |-> args.warehouse_count,
                      hasCoverageGap |-> has_coverage_gap(args.warehouse_count, args.total_requests)]
    /\ UNCHANGED <<clock, cache, callers, counters, mc, args>>

OpportunityNext == Opportunity

SpecOpportunity == InitOpportunity /\ [][OpportunityNext]_vars

(***************************************************************************)
(* Tier strings.  A string is the sequence of its characters, so that      *)
(* strip() and upper() do to it what they do in the code.                  *)
(***************************************************************************)
LowerCase ==
    <<"a", "b", "c", "d", "e", "f", "g", "h", "i", "j", "k", "l", "m",
      "n", "o", "p", "q", "r", "s", "t", "u", "v", "w", "x", "y", "z">>

UpperCase ==
    <<"A", "B", "C", "D", "E", "F", "G", "H", "I", "J", "K", "L", "M",
      "N", "O", "P", "Q", "R", "S", "T", "U", "V", "W", "X", "Y", "Z">>

Whitespace == {" ", "\t"}

\* the place of the character c in the alphabet abc, 0 if it is not in it
place(c, abc) ==
    IF \E i \in DOMAIN abc : abc[i] = c THEN CHOOSE i \in DOMAIN abc : abc[i] = c ELSE 0

\* str.upper()
str_upper(s) ==
    [i \in DOMAIN s |-> IF place(s[i], LowerCase) > 0 THEN UpperCase[place(s[i], LowerCase)] ELSE s[i]]

\* str.lower()
str_lower(s) ==
    [i \in DOMAIN s |-> IF place(s[i], UpperCase) > 0 THEN LowerCase[place(s[i], UpperCase)] ELSE s[i]]

RECURSIVE str_lstrip(_)
str_lstrip(s) == IF s /= <<>> /\ Head(s) \in Whitespace THEN str_lstrip(Tail(s)) ELSE s

RECURSIVE str_rstrip(_)
str_rstrip(s) ==
    IF s /= <<>> /\ s[Len(s)] \in Whitespace THEN str_rstrip(SubSeq(s, 1, Len(s) - 1)) ELSE s

\* str.strip()
str_strip(s) == str_rstrip(str_lstrip(s))

Gold == <<"G", "o", "l", "d">>
PotentialGold == <<"P", "o", "t", "e", "n", "t", "i", "a", "l", " ", "G", "o", "l", "d">>
Silver == <<"S", "i", "l", "v", "e", "r">>
Bronze == <<"B", "r", "o", "n", "z", "e">>
Platinum == <<"P", "l", "a", "t", "i", "n", "u", "m">>
UnTiered == <<"U", "n", "-", "t", "i", "e", "r", "e", "d">>
Untiered == <<"U", "n", "t", "i", "e", "r", "e", "d">>

\* the tier a warehouse record can carry: a standard one or another, as
\* written, in another case, padded; or nothing but blanks, or nothing
TierStrings ==
    LET base == {Gold, PotentialGold, Silver, Bronze, Platinum}
    IN  base \cup {str_upper(s) : s \in base} \cup {str_lower(s) : s \in base}
             \cup {<<" ">> \o s \o <<"\t">> : s \in base}
             \cup {<<>>, <<" ">>}

\* the tier filters a request can carry; no other filter is set
TierFilters ==
    {None, [tier |-> <<>>], [tier |-> <<Gold>>], [tier |-> <<UnTiered>>],
     [tier |-> <<Untiered>>], [tier |-> <<str_lower(Silver), <<" ">> \o str_lower(Gold)>>]}

\* the lists of at most n records with these tiers, ids in order
RECURSIVE WarehouseLists(_)
WarehouseLists(n) ==
    IF n = 0 THEN {<<>>}
    ELSE WarehouseLists(n - 1)
         \cup {Append(ws, [id |-> n, tier |-> t]) : ws \in {w \in WarehouseLists(n - 1) : Len(w) = n - 1},
                                                   t \in TierStrings}

\* apply_warehouse_filters: the test of one filter_tier against the stripped tier
\* of a warehouse
tier_matches(warehouse_tier_stripped, filter_tier) ==
    LET filter_tier_upper == str_upper(str_strip(filter_tier))
        standard_tiers == {str_upper(Gold), str_upper(PotentialGold), str_upper(Silver),
                           str_upper(Bronze)}
    IN  IF filter_tier_upper = str_upper(Gold)
        THEN str_upper(warehouse_tier_stripped) \in {str_upper(Gold), str_upper(PotentialGold)}
        ELSE IF filter_tier_upper = str_upper(UnTiered) \/ filter_tier_upper = str_upper(Untiered)
        THEN warehouse_tier_stripped = <<>> \/ str_upper(warehouse_tier_stripped) \notin standard_tiers
        ELSE str_upper(warehouse_tier_stripped) = filter_tier_upper

\* a test that takes the tier as it is written, which C20 tells from the code's
matches_filter_as_written(wh, tiers) ==
    \E i \in DOMAIN tiers : tier_matches(wh.tier, tiers[i])

\* apply_warehouse_filters: matches_filter after the loop over filters.tier
matches_filter(wh, tiers) ==
    \E i \in DOMAIN tiers : tier_matches(str_strip(wh.tier), tiers[i])

\* apply_warehouse_filters, of the filters only tier being set
apply_warehouse_filters(warehouses, filters) ==
    IF filters = None THEN warehouses
    ELSE IF filters.tier = <<>> THEN warehouses
    ELSE SelectSeq(warehouses, LAMBDA wh : matches_filter(wh, filters.tier))

\* the tests of the four counts
is_gold(w) == w.tier \in {Gold, PotentialGold}
is_silver(w) == w.tier = Silver
is_bronze(w) == w.tier = Bronze

\* an un-tiered test for blank tiers alone, which C16 tells from the code's
is_blank(w) == w.tier = <<>> \/ str_strip(w.tier) = <<>>

is_un_tiered(w) ==
    w.tier = <<>> \/ str_strip(w.tier) = <<>> \/ w.tier \notin {Gold, PotentialGold, Silver, Bronze}

\* sum(1 for w in warehouses_in_city if test(w))
count_if(warehouses_in_city, test(_)) == Len(SelectSeq(warehouses_in_city, test))

\* Count warehouses by tier
tier_counts(warehouses_in_city) ==
    [warehouseCount |-> Len(warehouses_in_city),
     goldWarehouseCount |-> count_if(warehouses_in_city, is_gold),
     silverWarehouseCount |-> count_if(warehouses_in_city, is_silver),
     bronzeWarehouseCount |-> count_if(warehouses_in_city, is_bronze),
     unTieredWarehouseCount |-> count_if(warehouses_in_city, is_un_tiered)]

TierInputs ==
    {[fn |-> "tiers", warehouses |-> ws, filters |-> f] :
        ws \in WarehouseLists(MaxGroup), f \in TierFilters}

InitTiers ==
    /\ AtRest
    /\ args \in TierInputs
    /\ returned = None

\* static_warehouses = apply_warehouse_filters(static_warehouses, filters)
ApplyWarehouseFilters ==
    /\ args \in TierInputs
    /\ returned = None
    /\ returned' = [stage |-> "filtered",
                    warehouses |-> apply_warehouse_filters(args.warehouses, args.filters)]
    /\ UNCHANGED <<clock, cache, callers, counters, mc, args>>

\* the tier counts of the filtered warehouses, as one location's group
TierCounts ==
    /\ args \in TierInputs
    /\ returned /= None
    /\ returned.stage = "filtered"
    /\ \E by \in AnalysisFunctions :
         returned' = [stage |-> "counted", by |-> by, warehouses |-> returned.warehouses,
                      counts |-> tier_counts(returned.warehouses)]
    /\ UNCHANGED <<clock, cache, callers, counters, mc, args>>

TiersNext == ApplyWarehouseFilters \/ TierCounts

SpecTiers == InitTiers /\ [][TiersNext]_vars

(***************************************************************************)
(* Grouping by city and radius expansion.  Coordinates are whole degrees   *)
(* and a centre is kept as a sum of coordinates and the number of points   *)
(* summed, so that a mean is exact.  The geolocation module's haversine is *)
(* taken as a distance in the plane; the analysis uses of it only that it  *)
(* is compared with radius_miles and averaged.                             *)
(***************************************************************************)
\* load_us_cities(): keyed by <<city, state>>; Boerne has no coordinates,
\* and no warehouse gives Cuero as its city
us_cities ==
    [k \in {<<"Austin", "TX">>, <<"Boerne", "TX">>, <<"Cuero", "TX">>} |->
       CASE k[1] = "Austin" -> [latitude |-> 2, longitude |-> 2]
         [] k[1] = "Boerne" -> [latitude |-> 0, longitude |-> 0]
         [] k[1] = "Cuero" -> [latitude |-> 4, longitude |-> 1]]

WarehouseCities == {"Austin", "Boerne", "Dallas", ""}
WarehouseCoordinates == {<<0, 0>>, <<2, 3>>, <<3, 1>>, <<0, 4>>}
WarehouseTiers == <<Gold, str_lower(Gold), <<>>, Silver>>

\* the ids of the fetched records: distinct, or the first record's id again
\* on the last one
WarehouseIds(n) == {[i \in 1..n |-> i], [i \in 1..n |-> IF i = n THEN 1 ELSE i]}

\* static_warehouses: n records
StaticWarehouses(n) ==
    {[i \in 1..n |-> [id |-> ids[i], city |-> city[i], state |-> "TX", lat |-> at[i][1],
                      lng |-> at[i][2], reqCount |-> 2 * i - 1,
                      tier |-> WarehouseTiers[((i - 1) % Len(WarehouseTiers)) + 1]]] :
        ids \in WarehouseIds(n), city \in [1..n -> WarehouseCities],
        at \in [1..n -> WarehouseCoordinates]}

abs(x) == IF x < 0 THEN -x ELSE x

\* a test that takes every coordinate pair, which C19 tells from the code's
has_any_coordinates(wh) == wh.lat = wh.lat

\* wh.lat != 0 and wh.lng != 0
has_coordinates(wh) == wh.lat /= 0 /\ wh.lng /= 0

\* warehouse_city_data with the warehouse appended to the group of city_key
add_to_group(warehouse_city_data, city_key, warehouse) ==
    [k \in DOMAIN warehouse_city_data \cup {city_key} |->
       IF k /= city_key THEN warehouse_city_data[k]
       ELSE IF k \in DOMAIN warehouse_city_data
       THEN [warehouses |-> Append(warehouse_city_data[k].warehouses, warehouse),
             totalRequests |-> warehouse_city_data[k].totalRequests + warehouse.reqCount]
       ELSE [warehouses |-> <<warehouse>>, totalRequests |-> warehouse.reqCount]]

\* Group warehouses by city
RECURSIVE group_by_city(_, _)
group_by_city(static_warehouses, warehouse_city_data) ==
    IF static_warehouses = <<>> THEN warehouse_city_data
    ELSE IF Head(static_warehouses).city = "" \/ Head(static_warehouses).state = ""
    THEN group_by_city(Tail(static_warehouses), warehouse_city_data)
    ELSE group_by_city(Tail(static_warehouses),
                       add_to_group(warehouse_city_data,
                                    <<Head(static_warehouses).city, Head(static_warehouses).state>>,
                                    Head(static_warehouses)))

\* sum(...) of a list of numbers
RECURSIVE sum(_)
sum(numbers) == IF numbers = <<>> THEN 0 ELSE Head(numbers) + sum(Tail(numbers))

\* the centre of the group of city_key: the catalog's coordinates, or the mean
\* of the members' valid coordinates (from: the members it is the mean of),
\* or none
centre_from(valid_coords) ==
    IF valid_coords = <<>> THEN [ok |-> FALSE, lat |-> 0, lng |-> 0, per |-> 1, from |-> <<>>]
    ELSE [ok |-> TRUE, lat |-> sum([i \in DOMAIN valid_coords |-> valid_coords[i].lat]),
          lng |-> sum([i \in DOMAIN valid_coords |-> valid_coords[i].lng]), per |-> Len(valid_coords),
          from |-> valid_coords]

group_centre(city_key, data) ==
    IF /\ city_key \in DOMAIN us_cities
       /\ us_cities[city_key].latitude /= 0
       /\ us_cities[city_key].longitude /= 0
    THEN [ok |-> TRUE, lat |-> us_cities[city_key].latitude,
          lng |-> us_cities[city_key].longitude, per |-> 1, from |-> <<>>]
    ELSE centre_from(SelectSeq(data.warehouses, has_coordinates))

\* haversine(center_lat, center_lng, lat, lng), times center.per
haversine(center, lat, lng) ==
    abs(center.lat - lat * center.per) + abs(center.lng - lng * center.per)

\* a test that takes the warehouses on the circle only, which C18 tells from
\* the code's
on_radius(center, warehouse, radius_miles) ==
    haversine(center, warehouse.lat, warehouse.lng) = radius_miles * center.per

\* distance <= radius_miles
within_radius(center, warehouse, radius_miles) ==
    haversine(center, warehouse.lat, warehouse.lng) <= radius_miles * center.per

\* a test that knows no warehouse, which C17 tells from the code's
in_no_ids(warehouse, existing_warehouse_ids) == warehouse.id \in {}

\* warehouse.id in existing_warehouse_ids
in_existing_ids(warehouse, existing_warehouse_ids) == warehouse.id \in existing_warehouse_ids

\* for warehouse in valid_warehouses: of the first expansion
RECURSIVE expand_group(_, _, _, _, _)
expand_group(data, existing_warehouse_ids, center, valid_warehouses, radius_miles) ==
    IF valid_warehouses = <<>> THEN data
    ELSE IF in_existing_ids(Head(valid_warehouses), existing_warehouse_ids)
    THEN expand_group(data, existing_warehouse_ids, center, Tail(valid_warehouses), radius_miles)
    ELSE IF within_radius(center, Head(valid_warehouses), radius_miles)
    THEN expand_group([warehouses |-> Append(data.warehouses, Head(valid_warehouses)),
                       totalRequests |-> data.totalRequests + Head(valid_warehouses).reqCount],
                      existing_warehouse_ids \cup {Head(valid_warehouses).id},
                      center, Tail(valid_warehouses), radius_miles)
    ELSE expand_group(data, existing_warehouse_ids, center, Tail(valid_warehouses), radius_miles)

\* the group of one city after the first expansion, its centre being center
expanded_with(data, center, valid_warehouses, radius_miles) ==
    IF ~center.ok THEN data
    ELSE expand_group(data, {data.warehouses[i].id : i \in DOMAIN data.warehouses}, center,
                      valid_warehouses, radius_miles)

\* First, expand existing warehouse city groups
expand_existing(warehouse_city_data, valid_warehouses, radius_miles) ==
    [city_key \in DOMAIN warehouse_city_data |->
       expanded_with(warehouse_city_data[city_key],
                     group_centre(city_key, warehouse_city_data[city_key]),
                     valid_warehouses, radius_miles)]

\* the centres the first expansion worked with
centres_of(warehouse_city_data) ==
    [city_key \in DOMAIN warehouse_city_data |->
       group_centre(city_key, warehouse_city_data[city_key])]

\* a search that stops at the first warehouse in range, which C25 tells from
\* the code's
first_warehouse_for_city(center, valid_warehouses, radius_miles) ==
    LET nearby == SelectSeq(valid_warehouses,
                            LAMBDA warehouse : within_radius(center, warehouse, radius_miles))
    IN  IF nearby = <<>> THEN <<>> ELSE <<Head(nearby)>>

\* nearby_warehouses_for_city
nearby_warehouses_for_city(center, valid_warehouses, radius_miles) ==
    SelectSeq(valid_warehouses, LAMBDA warehouse : within_radius(center, warehouse, radius_miles))

\* the catalog's cities the second expansion gives a group to
cities_to_add(warehouse_city_data, valid_warehouses, radius_miles) ==
    {city_key \in DOMAIN us_cities \ DOMAIN warehouse_city_data :
        /\ us_cities[city_key].latitude /= 0
        /\ us_cities[city_key].longitude /= 0
        /\ nearby_warehouses_for_city(group_centre(city_key, [warehouses |-> <<>>]),
                                      valid_warehouses, radius_miles) /= <<>>}

\* the group the second expansion makes of the warehouses near a city
group_of(nearby) ==
    [warehouses |-> nearby, totalRequests |-> sum([i \in DOMAIN nearby |-> nearby[i].reqCount])]

\* Second, check ALL US cities for nearby warehouses
expand_catalog(warehouse_city_data, valid_warehouses, radius_miles) ==
    [city_key \in DOMAIN warehouse_city_data
                    \cup cities_to_add(warehouse_city_data, valid_warehouses, radius_miles) |->
       IF city_key \in DOMAIN warehouse_city_data THEN warehouse_city_data[city_key]
       ELSE group_of(nearby_warehouses_for_city(group_centre(city_key, [warehouses |-> <<>>]),
                                               valid_warehouses, radius_miles))]

\* the groups of the analysis run with radius_miles
groups_at(static_warehouses, radius_miles) ==
    IF radius_miles > 0
    THEN expand_catalog(expand_existing(group_by_city(static_warehouses, <<>>),
                                        SelectSeq(static_warehouses, has_coordinates),
                                        radius_miles),
                        SelectSeq(static_warehouses, has_coordinates), radius_miles)
    ELSE group_by_city(static_warehouses, <<>>)

\* the other warehouses whose distance from wh goes into its nearbyWarehouses
\* distance
distance_terms(wh, warehouses_in_city) ==
    IF Len(warehouses_in_city) > 1
    THEN SelectSeq(warehouses_in_city,
                   LAMBDA other_wh : /\ other_wh.id /= wh.id
                                     /\ has_coordinates(wh)
                                     /\ has_coordinates(other_wh))
    ELSE <<>>

\* MockWarehouse(id, name, tier, distance): distance is sum / over, or 0.0
\* when over is 0
mock_warehouse(wh, terms) ==
    [id |-> wh.id, tier |-> wh.tier, terms |-> terms,
     distance |-> [sum |-> sum([i \in DOMAIN terms |->
                                   abs(wh.lat - terms[i].lat) + abs(wh.lng - terms[i].lng)]),
                   over |-> Len(terms)]]

\* Create nearby warehouses list (top 3)
nearby_warehouses(warehouses_in_city) ==
    [i \in 1..(IF Len(warehouses_in_city) < 3 THEN Len(warehouses_in_city) ELSE 3) |->
       mock_warehouse(warehouses_in_city[i], distance_terms(warehouses_in_city[i], warehouses_in_city))]

\* the CoverageAnalysis entry of a catalog city
coverage_entry(warehouses_in_city, total_requests_in_city) ==
    [nearbyWarehouses |-> nearby_warehouses(warehouses_in_city),
     counts |-> tier_counts(warehouses_in_city),
     warehouseCount |-> Len(warehouses_in_city),
     hasCoverageGap |-> has_coverage_gap(Len(warehouses_in_city), total_requests_in_city),
     expansionOpportunity |-> expansion_opportunity(Len(warehouses_in_city), total_requests_in_city),
     reqCount |-> total_requests_in_city]

\* Create coverage analysis for ALL US cities
coverage_analysis(warehouse_city_data) ==
    [city_key \in DOMAIN us_cities |->
       IF city_key \in DOMAIN warehouse_city_data
       THEN coverage_entry(warehouse_city_data[city_key].warehouses,
                           warehouse_city_data[city_key].totalRequests)
       ELSE coverage_entry(<<>>, 0)]

ExpansionInputs ==
    {[fn |-> "expansion", warehouses |-> ws, radius_miles |-> r] :
        ws \in StaticWarehouses(NumWarehouses), r \in 0..MaxRadius}

InitExpansion ==
    /\ AtRest
    /\ args \in ExpansionInputs
    /\ returned = None

\* Group warehouses by city
AnalysisGroup ==
    /\ args \in ExpansionInputs
    /\ returned = None
    /\ \E by \in AnalysisFunctions :
         returned' = [stage |-> "grouped", by |-> by,
                      groups |-> group_by_city(args.warehouses, <<>>),
                      centres |-> <<>>, entries |-> <<>>]
    /\ UNCHANGED <<clock, cache, callers, counters, mc, args>>

\* if radius_miles and radius_miles > 0: First, expand existing warehouse city groups
AnalysisExpandExisting ==
    /\ args \in ExpansionInputs
    /\ returned /= None
    /\ returned.stage = "grouped"
    /\ args.radius_miles > 0
    /\ returned' = [returned EXCEPT
                      !.stage = "expanded",
                      !.centres = centres_of(returned.groups),
                      !.groups = expand_existing(returned.groups,
                                                 SelectSeq(args.warehouses, has_coordinates),
                                                 args.radius_miles)]
    /\ UNCHANGED <<clock, cache, callers, counters, mc, args>>

\* Second, check ALL US cities for nearby warehouses
AnalysisExpandCatalog ==
    /\ args \in ExpansionInputs
    /\ returned /= None
    /\ returned.stage = "expanded"
    /\ returned' = [returned EXCEPT
                      !.stage = "expanded_all",
                      !.groups = expand_catalog(returned.groups,
                                                SelectSeq(args.warehouses, has_coordinates),
                                                args.radius_miles)]
    /\ UNCHANGED <<clock, cache, callers, counters, mc, args>>

\* Create coverage analysis for ALL US cities
AnalysisEntries ==
    /\ args \in ExpansionInputs
    /\ returned /= None
    /\ \/ returned.stage = "expanded_all"
       \/ returned.stage = "grouped" /\ ~(args.radius_miles > 0)
    /\ returned' = [returned EXCEPT !.stage = "analysed",
                                    !.entries = coverage_analysis(returned.groups)]
    /\ UNCHANGED <<clock, cache, callers, counters, mc, args>>

ExpansionNext ==
    AnalysisGroup \/ AnalysisExpandExisting \/ AnalysisExpandCatalog \/ AnalysisEntries

SpecExpansion == InitExpansion /\ [][ExpansionNext]_vars

(***************************************************************************)
(* The filters of apply_warehouse_filters on the list-valued fields.  A    *)
(* record is given one field at a time, the other filters being unset.     *)
(***************************************************************************)
Yes == <<"Y", "e", "s">>
No == <<"N", "o">>

\* str.split(','): the pieces between the commas
RECURSIVE str_split(_, _)
str_split(s, piece) ==
    IF s = <<>> THEN <<piece>>
    ELSE IF Head(s) = "," THEN <<piece>> \o str_split(Tail(s), <<>>)
    ELSE str_split(Tail(s), Append(piece, Head(s)))

\* [item.strip().upper() for item in value.split(',') if item.strip()]
split_values(value) ==
    LET items == str_split(value, <<>>)
        kept == SelectSeq(items, LAMBDA item : str_strip(item) /= <<>>)
    IN  [i \in DOMAIN kept |-> str_upper(str_strip(kept[i]))]

\* Hazmat filter, Disposal filter: wh.hazmat in filters.hazmat
passes_membership(value, filter_values) ==
    \E i \in DOMAIN filter_values : filter_values[i] = value

\* Food Grade filter
passes_food_grade(value, filter_values) ==
    /\ value /= <<>>
    /\ \E i \in DOMAIN filter_values :
          str_upper(str_strip(filter_values[i])) = str_upper(str_strip(value))

\* Paper Clamps filter, Parking Spots filter
passes_split(value, filter_values) ==
    /\ value /= <<>>
    /\ \E i \in DOMAIN filter_values :
          \E j \in DOMAIN split_values(value) :
             split_values(value)[j] = str_upper(str_strip(filter_values[i]))

FilteredFields == {"hazmat", "disposal", "foodGrade", "paperClamps", "parkingSpots"}

\* the test the loop body makes of the record wh for the one filter that is set
passes_field_filter(field, wh, filter_values) ==
    IF filter_values = <<>> THEN TRUE
    ELSE CASE field \in {"hazmat", "disposal"} -> passes_membership(wh.value, filter_values)
           [] field = "foodGrade" -> passes_food_grade(wh.value, filter_values)
           [] field \in {"paperClamps", "parkingSpots"} -> passes_split(wh.value, filter_values)

\* apply_warehouse_filters, of the filters only the one on field being set
apply_field_filter(field, warehouses, filter_values) ==
    SelectSeq(warehouses, LAMBDA wh : passes_field_filter(field, wh, filter_values))

\* what a record carries in such a field: a value as written, in another case,
\* padded, joined to another by a comma, or nothing
FieldValues ==
    {<<>>, Yes, str_lower(Yes), <<" ">> \o Yes \o <<" ">>, Yes \o <<",", " ">> \o No, No}

\* what a request asks of such a field
FieldFilters == {<<Yes>>, <<str_upper(Yes)>>, <<No, <<" ">> \o str_lower(Yes)>>, <<>>}

FieldInputs ==
    {[fn |-> "fields", field |-> f,
      warehouses |-> <<[id |-> 1, value |-> v1], [id |-> 2, value |-> v2]>>,
      filter_values |-> fv] :
        f \in FilteredFields, v1 \in FieldValues, v2 \in FieldValues, fv \in FieldFilters}

InitFields ==
    /\ AtRest
    /\ args \in FieldInputs
    /\ returned = None

\* static_warehouses = apply_warehouse_filters(static_warehouses, filters)
ApplyFieldFilter ==
    /\ args \in FieldInputs
    /\ returned = None
    /\ returned' = [stage |-> "filtered",
                    warehouses |-> apply_field_filter(args.field, args.warehouses,
                                                      args.filter_values)]
    /\ UNCHANGED <<clock, cache, callers, counters, mc, args>>

FieldsNext == ApplyFieldFilter

SpecFields == InitFields /\ [][FieldsNext]_vars

(***************************************************************************)
(* transform_warehouse_to_static_data.  A raw Airtable value is a shape:   *)
(* absent, null, an error object, a number or a string; the call returns   *)
(* the StaticWarehouseData or raises.                                      *)
(***************************************************************************)
Absent == [shape |-> "absent", number |-> 0, text |-> <<>>]
Null == [shape |-> "null", number |-> 0, text |-> <<>>]
ErrorObject == [shape |-> "error", number |-> 0, text |-> <<>>]
NumberOf(n) == [shape |-> "number", number |-> n, text |-> <<>>]
StringOf(s) == [shape |-> "string", number |-> 0, text |-> s]

Digits == <<"0", "1", "2", "3", "4", "5", "6", "7", "8", "9">>

\* float(s) of a string of digits; parses: whether float(s) returns at all
RECURSIVE digits_value(_, _)
digits_value(s, sofar) ==
    IF s = <<>> THEN sofar
    ELSE digits_value(Tail(s), 10 * sofar + place(Head(s), Digits) - 1)

parses(s) ==
    str_strip(s) /= <<>> /\ \A i \in DOMAIN str_strip(s) : place(str_strip(s)[i], Digits) > 0

\* fields.get(name, 0.0), then: if isinstance(v, str): try float(v) except: 0.0
coordinate(raw) ==
    CASE raw.shape = "absent" -> NumberOf(0)
      [] raw.shape = "string" ->
           IF parses(raw.text) THEN NumberOf(digits_value(str_strip(raw.text), 0)) ELSE NumberOf(0)
      [] OTHER -> raw

\* safe_string_field(fields.get(name, ""))
safe_string_field(raw) ==
    CASE raw.shape \in {"absent", "null", "error"} -> <<>>
      [] raw.shape = "string" -> raw.text
      [] raw.shape = "number" -> <<Digits[raw.number + 1]>>

\* warehouse_record.get("id", "")
record_id(raw) == IF raw.shape = "absent" THEN StringOf(<<>>) ELSE raw

\* StaticWarehouseData(...): id is a str, lat and lng are floats
validates(id, lat, lng) ==
    id.shape = "string" /\ lat.shape = "number" /\ lng.shape = "number"

\* the call on a record already read: the model built, or the ValidationError
static_warehouse_data(id, lat, lng, tier) ==
    IF validates(id, lat, lng)
    THEN [raised |-> FALSE, id |-> id.text, lat |-> lat.number, lng |-> lng.number, tier |-> tier]
    ELSE [raised |-> TRUE, id |-> <<>>, lat |-> 0, lng |-> 0, tier |-> <<>>]

transform_warehouse_to_static_data(warehouse_record) ==
    static_warehouse_data(record_id(warehouse_record.id), coordinate(warehouse_record.Latitude),
                          coordinate(warehouse_record.Longitude),
                          safe_string_field(warehouse_record.Tier))

RawCoordinates ==
    {Absent, Null, ErrorObject, NumberOf(3), StringOf(<<"1", "2">>), StringOf(<<" ", "7">>),
     StringOf(<<"n", "/", "a">>), StringOf(<<>>)}

RawRecords ==
    {[id |-> i, Latitude |-> lat, Longitude |-> lng, Tier |-> t] :
        i \in {StringOf(<<"r", "e", "c", "1">>), Absent, Null},
        lat \in RawCoordinates, lng \in RawCoordinates,
        t \in {StringOf(Gold), Absent, Null, ErrorObject}}

TransformInputs == {[fn |-> "transform", record |-> r] : r \in RawRecords}

InitTransform ==
    /\ AtRest
    /\ args \in TransformInputs
    /\ returned = None

\* static_warehouse = transform_warehouse_to_static_data(warehouse_record, request_count)
Transform ==
    /\ args \in TransformInputs
    /\ returned = None
    /\ returned' = transform_warehouse_to_static_data(args.record)
    /\ UNCHANGED <<clock, cache, callers, counters, mc, args>>

TransformNext == Transform

SpecTransform == InitTransform /\ [][TransformNext]_vars

(***************************************************************************)
(* The AI analysis, analyze_coverage_gaps_with_ai, and the rule-based one  *)
(* it falls back to.  A city group is given by the figures the rules read: *)
(* its warehouses, its gold warehouses, its requests, and whether one of   *)
(* its warehouses has fewer than 3 warehouses within 50 miles.  A list of  *)
(* the result is the set of its cities, or of its actions.                 *)
(***************************************************************************)
CityFigures ==
    {[total_warehouses |-> n, gold_count |-> g, total_requests |-> r, isolated |-> i] :
        n \in {1, 5}, g \in {0, 1}, r \in {0, 4, 12}, i \in BOOLEAN}

\* city_warehouses_dict: the figures of one or two cities
CityGroups ==
    [{"Austin"} -> CityFigures] \cup [{"Austin", "Boerne"} -> CityFigures]

\* Coverage Gaps: Areas with less than 3 warehouses within 50 miles
coverage_gaps(city_warehouses) ==
    {city_key \in DOMAIN city_warehouses : city_warehouses[city_key].isolated}

\* High Request Areas: Cities with the most requests
high_request_areas(city_warehouses) ==
    {city_key \in DOMAIN city_warehouses : city_warehouses[city_key].total_requests > 0}

\* 1. DATA QUALITY FLAGS
data_quality_issues(city_metrics) ==
    {city_key \in DOMAIN city_metrics :
        \/ city_metrics[city_key].total_warehouses >= 10 /\ city_metrics[city_key].gold_count <= 1
        \/ /\ city_metrics[city_key].total_warehouses >= 5
           /\ city_metrics[city_key].gold_count = 0
           /\ city_metrics[city_key].total_requests > 0}

\* 2. HIGH REQUEST + LOW COVERAGE CORRELATION
high_request_low_coverage(city_metrics) ==
    {city_key \in DOMAIN city_metrics :
        city_metrics[city_key].total_requests >= 10 /\ city_metrics[city_key].gold_count <= 2}

\* 3. REQUEST VOLUME VS GOLD AVAILABILITY
request_to_gold_ratios(city_metrics) ==
    {city_key \in DOMAIN city_metrics :
        city_metrics[city_key].total_requests > 0 /\ city_metrics[city_key].total_warehouses > 0}

\* the recommendations of the first four rules: an action for each list that
\* is not empty
first_recommendations(city_warehouses) ==
    (IF coverage_gaps(city_warehouses) /= {} THEN {"Expand warehouse network"} ELSE {})
    \cup (IF high_request_areas(city_warehouses) /= {} THEN {"Focus on highest request volume"} ELSE {})
    \cup (IF data_quality_issues(city_warehouses) /= {} THEN {"Data quality issue"} ELSE {})
    \cup (IF high_request_low_coverage(city_warehouses) /= {} THEN {"Priority coverage gap"} ELSE {})

\* the recommendation of the fifth rule
ratio_recommendation(city_warehouses) ==
    IF request_to_gold_ratios(city_warehouses) /= {} THEN {"Recruit gold-tier warehouses"} ELSE {}

AIAnalysisData(gaps, areas, recommendations) ==
    [raised |-> FALSE, coverageGaps |-> gaps, highRequestAreas |-> areas,
     requestTrends |-> "trends", recommendations |-> recommendations]

\* the exception leaves the function
Raised ==
    [raised |-> TRUE, coverageGaps |-> {}, highRequestAreas |-> {}, requestTrends |-> "none",
     recommendations |-> {}]

\* analyze_coverage_gaps_without_ai: request_to_gold_ratios is assigned inside
\* the block of `if high_request_low_coverage:` and sorted outside it
analyze_coverage_gaps_without_ai(city_warehouses) ==
    IF high_request_low_coverage(city_warehouses) = {}
    THEN Raised
    ELSE AIAnalysisData(coverage_gaps(city_warehouses), high_request_areas(city_warehouses),
                        first_recommendations(city_warehouses)
                          \cup ratio_recommendation(city_warehouses))

\* analyze_coverage_gaps_with_ai: gemini_key is whether GEMINI_API_KEY is set,
\* generated whether generate_content_async returns; the except clause
\* returns the lists that exist by then, and none does before the call returns
analyze_coverage_gaps_with_ai(city_warehouses, gemini_key, generated) ==
    IF ~gemini_key THEN analyze_coverage_gaps_without_ai(city_warehouses)
    ELSE IF ~generated THEN AIAnalysisData({}, {}, {})
    ELSE AIAnalysisData(coverage_gaps(city_warehouses), high_request_areas(city_warehouses),
                        first_recommendations(city_warehouses)
                          \cup ratio_recommendation(city_warehouses))

AiInputs ==
    {[fn |-> "ai_analysis", groups |-> g, gemini_key |-> k, generated |-> ok] :
        g \in CityGroups, k \in BOOLEAN, ok \in BOOLEAN}

InitAi ==
    /\ AtRest
    /\ args \in AiInputs
    /\ returned = None

\* ai_analysis = await analyze_coverage_gaps_with_ai(...)
AiAnalysis ==
    /\ args \in AiInputs
    /\ returned = None
    /\ returned' = analyze_coverage_gaps_with_ai(args.groups, args.gemini_key, args.generated)
    /\ UNCHANGED <<clock, cache, callers, counters, mc, args>>

AiNext == AiAnalysis

SpecAi == InitAi /\ [][AiNext]_vars

(***************************************************************************)
(* get_coverage_gap_analysis in flight.  The function awaits its           *)
(* collaborators between the cache lookup, the warehouse fetch and the     *)
(* cache.set of its result, and other handlers run at each await: the      *)
(* Airtable webhook, which clears the cache, and any handler that reads    *)
(* it.  A result is built from the records fetched and carries their time. *)
(* The webhook tells of a change later than every fetch made before it:    *)
(* it comes a second later.  returned keeps when the latest invalidation   *)
(* completed and what the latest cache read since then returned.           *)
(***************************************************************************)
NothingRead == [invalidated_at |-> 0, key |-> WAREHOUSES_KEY, read |-> None]

InitInFlight ==
    /\ AtRest
    /\ args = None
    /\ returned = NothingRead

\* cached = _cache.get(cache_key); if cached: return cached
AnalysisCacheLookup ==
    /\ reader.pc \in {"idle", "done", "raised"}
    /\ counters.reads < MaxReads
    /\ \E r \in ReaderRadii :
         /\ reader' = IF MemoryCache_get(cache, analysis_cache_key("no_filters", r), clock) # None
                      THEN [IdleReader EXCEPT
                              !.pc = "done", !.radius = r, !.hit = TRUE, !.at = clock,
                              !.ret = MemoryCache_get(cache, analysis_cache_key("no_filters", r), clock)]
                      ELSE [IdleReader EXCEPT !.pc = "fetch_warehouses", !.radius = r, !.at = clock]
         /\ cache' = MemoryCache_after_get(cache, analysis_cache_key("no_filters", r), clock)
    /\ counters' = [counters EXCEPT !.reads = counters.reads + 1]
    /\ UNCHANGED <<clock, batch, pstream, sse, aside>>

\* the records the fetch o gave the analysis g, or its failure
fetched(g, o) ==
    IF o.raised THEN [g EXCEPT !.pc = "raised", !.ran = TRUE]
    ELSE [g EXCEPT !.pc = "build", !.ran = TRUE, !.cached = o.value]

\* warehouses_data = await fetch_warehouses_from_airtable()
AnalysisFetchWarehouses ==
    /\ reader.pc = "fetch_warehouses"
    /\ \E up \in BOOLEAN :
         /\ reader' = fetched(reader, fetch_warehouses_from_airtable(cache, clock, up))
         /\ cache' = fetch_warehouses_from_airtable(cache, clock, up).m
    /\ UNCHANGED <<clock, batch, pstream, sse, counters, aside>>

\* the rest of the function: the analysis of the records, then
\* _cache.set(cache_key, result, ttl=1800); return result
AnalysisCacheStore ==
    /\ reader.pc = "build"
    /\ reader' = [reader EXCEPT !.pc = "done",
                                !.ret = analysis_result(reader.radius, reader.cached.at)]
    /\ cache' = MemoryCache_set(cache, analysis_cache_key("no_filters", reader.radius),
                                analysis_result(reader.radius, reader.cached.at), RESULT_TTL, clock)
    /\ UNCHANGED <<clock, batch, pstream, sse, counters, aside>>

\* airtable_webhook: await invalidate_warehouse_cache()
airtable_webhook ==
    /\ counters.ticks < MaxTicks
    /\ clock' = clock + 1
    /\ cache' = clear_warehouse_cache(cache)
    /\ counters' = [counters EXCEPT !.ticks = counters.ticks + 1]
    /\ returned' = [NothingRead EXCEPT !.invalidated_at = clock + 1]
    /\ UNCHANGED <<callers, mc, args>>

\* a handler reads the cache: a coverage result or the warehouse list
CacheRead ==
    /\ \E key \in {WAREHOUSES_KEY} \cup {analysis_cache_key("no_filters", r) : r \in ReaderRadii} :
         /\ MemoryCache_get(cache, key, clock) # None
         /\ returned' = [returned EXCEPT !.key = key, !.read = MemoryCache_get(cache, key, clock)]
    /\ UNCHANGED <<clock, cache, callers, counters, mc, args>>

InFlightNext ==
    \/ AnalysisCacheLookup \/ AnalysisFetchWarehouses \/ AnalysisCacheStore
    \/ airtable_webhook \/ CacheRead

SpecInFlight == InitInFlight /\ [][InFlightNext]_vars

(***************************************************************************)
(* precache_ai_analysis: the initial attempt and its retries.  args is the *)
(* task: healthy tells, attempt by attempt, whether the upstream           *)
(* collaborators of get_ai_analysis_only succeeded; slept, the delays      *)
(* asked of asyncio.sleep.                                                 *)
(***************************************************************************)
LAST_AI_ANALYSIS_PRECACHE_TIMESTAMP_KEY ==
    [ns |-> "coverage_gap", stem |-> "ai_analysis:precache:last_timestamp", radius |-> 0]

AI_TIMESTAMP_TTL == 2592000

get_ai_analysis_only_params == {"filters", "radius_miles"}
ai_precache_call_kwargs == {"filters", "skip_cache"}

save_last_ai_analysis_precache_timestamp(m, now) ==
    MemoryCache_set(m, LAST_AI_ANALYSIS_PRECACHE_TIMESTAMP_KEY,
                    [kind |-> "timestamp", radius |-> 0, at |-> now], AI_TIMESTAMP_TTL, now)

get_last_ai_analysis_precache_timestamp(m, now) ==
    MemoryCache_get(m, LAST_AI_ANALYSIS_PRECACHE_TIMESTAMP_KEY, now)

\* get_ai_analysis_only once its arguments are bound: it raises when the
\* warehouse fetch does, and returns the analysis otherwise
get_ai_analysis_only(m, now, up) ==
    [raised |-> fetch_warehouses_from_airtable(m, now, up).raised,
     m |-> fetch_warehouses_from_airtable(m, now, up).m]

\* the try block: the call, then the timestamp; except Exception: False
ai_attempt_outcome(r, now) ==
    IF ~call_binds(ai_precache_call_kwargs, get_ai_analysis_only_params)
    THEN [ok |-> FALSE, m |-> r.before]
    ELSE IF r.raised THEN [ok |-> FALSE, m |-> r.m]
    ELSE [ok |-> TRUE, m |-> save_last_ai_analysis_precache_timestamp(r.m, now)]

precache_ai_analysis_once(m, now, up) ==
    ai_attempt_outcome([before |-> m, raised |-> get_ai_analysis_only(m, now, up).raised,
                        m |-> get_ai_analysis_only(m, now, up).m], now)

IdleAiPrecache ==
    [pc |-> "idle", success |-> FALSE, retry_attempt |-> 0, healthy |-> <<>>,
     slept |-> <<>>, ret |-> FALSE]

InitAiPrecache ==
    /\ AtRest
    /\ args = IdleAiPrecache
    /\ returned = None

ai_attempted(task, up, ok) ==
    [task EXCEPT !.pc = "check", !.success = ok, !.healthy = Append(task.healthy, up)]

\* success = await _precache_ai_analysis_once()
AiPrecacheInitialAttempt ==
    /\ args.pc = "idle"
    /\ \E up \in BOOLEAN :
         /\ args' = ai_attempted(args, up, precache_ai_analysis_once(cache, clock, up).ok)
         /\ cache' = precache_ai_analysis_once(cache, clock, up).m
    /\ UNCHANGED <<clock, callers, counters, mc, returned>>

\* while not success and retry_attempt < MAX_RETRIES: ... else return success
AiPrecacheRetryCheck ==
    /\ args.pc = "check"
    /\ args' = IF ~args.success /\ args.retry_attempt < MAX_RETRIES
               THEN [args EXCEPT !.pc = "sleep", !.retry_attempt = args.retry_attempt + 1,
                                 !.slept = Append(args.slept, retry_delay(args.retry_attempt + 1))]
               ELSE [args EXCEPT !.pc = "done", !.ret = args.success]
    /\ UNCHANGED <<clock, cache, callers, counters, mc, returned>>

\* await asyncio.sleep(retry_delay) returns
AiPrecacheWake ==
    /\ args.pc = "sleep"
    /\ clock' = clock + args.slept[Len(args.slept)]
    /\ args' = [args EXCEPT !.pc = "retry"]
    /\ UNCHANGED <<cache, callers, counters, mc, returned>>

\* success = await _precache_ai_analysis_once(), in the loop
AiPrecacheRetryAttempt ==
    /\ args.pc = "retry"
    /\ \E up \in BOOLEAN :
         /\ args' = ai_attempted(args, up, precache_ai_analysis_once(cache, clock, up).ok)
         /\ cache' = precache_ai_analysis_once(cache, clock, up).m
    /\ UNCHANGED <<clock, callers, counters, mc, returned>>

\* a handler asks for the time of the last AI precache
AiPrecacheTimestampRead ==
    /\ args.pc \in {"idle", "check", "sleep", "retry", "done"}
    /\ returned' = [asked_at |-> clock,
                    timestamp |-> get_last_ai_analysis_precache_timestamp(cache, clock)]
    /\ UNCHANGED <<clock, cache, callers, counters, mc, args>>

AiPrecacheNext ==
    \/ AiPrecacheInitialAttempt \/ AiPrecacheRetryCheck \/ AiPrecacheWake
    \/ AiPrecacheRetryAttempt \/ AiPrecacheTimestampRead

SpecAiPrecache == InitAiPrecache /\ [][AiPrecacheNext]_vars

(***************************************************************************)
(* Properties.                                                             *)
(***************************************************************************)
Runs == {batch, pstream}

\* C1: whenever the upstream collaborators succeed, a call of
\* precache_coverage_gap_analysis(radius) returns True and leaves the fresh
\* result under get_precache_key(radius), expiring 90000 seconds later.
C1_HealthyAttemptStoresAndReturnsTrue ==
    [][\A run \in {<<batch, batch'>>, <<pstream, pstream'>>} :
         (Len(run[2].calls) > Len(run[1].calls) /\ run[2].last_call.healthy) =>
            /\ run[2].last_call.ok
            /\ get_precache_key(run[2].last_call.radius) \in DOMAIN cache'.store
            /\ cache'.store[get_precache_key(run[2].last_call.radius)].expires_at
                 = clock + 90000]_vars

\* a request of the reader rd that the precache attempt call is meant to serve:
\* no filters, the same radius, made while the precached entry is unexpired
covered_by(rd, call) ==
    /\ rd.pc # "idle"
    /\ rd.filter_key = "no_filters"
    /\ rd.radius = call.radius
    /\ rd.at >= call.at
    /\ rd.at <= call.at + 25 * 3600

\* C2: after a precache attempt for radius r made with healthy collaborators,
\* a reader's request with no filters and radius r within the next 25 hours
\* (longer than the 24 hours between scheduled runs) is answered from the
\* cache without running the pipeline.
C2_ReadersServedFromPrecache ==
    /\ PRECACHE_TTL > SCHEDULE_INTERVAL
    /\ \A rd \in {reader, sse} :
         (batch.last_call.healthy /\ covered_by(rd, batch.last_call)) => ~rd.ran

\* the waits the retry rounds of a run are preceded by, in seconds
Backoff == <<5, 10, 20>>

\* C3: a run makes at most 3 retry rounds, starts one only while some radius
\* has status 'failed', and makes the attempts of the k-th round only after
\* a wait of 5 * 2^(k-1) seconds (5, 10, 20).
C3_RetryRoundsBoundedWithBackoff ==
    \A run \in Runs :
       /\ run.retry_attempt <= 3
       /\ Len(run.slept) = run.retry_attempt
       /\ \A k \in 1..Len(run.slept) : run.slept[k] = Backoff[k]
       /\ run.pc = "sleeping" =>
            /\ run.failed_radii # <<>>
            /\ \A n \in DOMAIN run.failed_radii : run.results[run.failed_radii[n]] = "failed"
       /\ run.pc = "retrying" => clock >= run.began + Backoff[run.retry_attempt]
       /\ (run.last_call.round >= 1 /\ run.last_call.round = run.retry_attempt) =>
            run.last_call.at >= run.began + Backoff[run.last_call.round]

C3_Witness ==
    /\ batch.pc = "retrying"
    /\ batch.retry_attempt = 3
    /\ batch.slept = <<5, 10, 20>>
    /\ batch.last_call.round = 3
    /\ batch.last_call.at >= batch.began + 20

\* the status map the run is to return when only the radii of its fault plan fail
expected_results(fault) == [r \in Radii |-> IF r \in fault THEN "failed" ELSE "success"]

\* C4: when radius 100 fails on every attempt and the collaborators succeed
\* for every other radius, precache_all_radii makes exactly 3 retry rounds,
\* re-invokes only radius 100 in them, and returns 'failed' for 100 and
\* 'success' for the others.
C4_OnlyFailingRadiusRetried ==
    (batch.pc = "done" /\ batch.fault = {100}) =>
       /\ batch.retry_attempt = 3
       /\ \A n \in DOMAIN batch.calls : batch.calls[n][1] >= 1 => batch.calls[n][2] = 100
       /\ batch.results = expected_results({100})

\* the radii a run has invoked precache_coverage_gap_analysis for
attempted(run) == {run.calls[n][2] : n \in DOMAIN run.calls}

\* C5: a failed radius never aborts the batch: once the initial loop of
\* precache_all_radii is over, every configured radius has been attempted
\* and the result map holds one status, 'success' or 'failed', for each.
C5_EveryRadiusAttemptedAndReported ==
    /\ batch.pc = "initial" =>
         attempted(batch) = {PRECACHED_RADII[n] : n \in 1..(batch.i - 1)}
    /\ batch.pc \in {"retry_check", "sleeping", "retrying", "finish", "done"} =>
         /\ attempted(batch) = {25, 50, 100, 250, 500}
         /\ DOMAIN batch.results = {25, 50, 100, 250, 500}
    /\ \A r \in DOMAIN batch.results : batch.results[r] \in {"success", "failed"}

C5_Witness ==
    /\ batch.pc = "done"
    /\ batch.fault = {100}
    /\ batch.results[100] = "failed"
    /\ Len(batch.calls) > 5

\* the step writes the last-precache timestamp
writes_timestamp ==
    /\ LAST_PRECACHE_TIMESTAMP_KEY \in DOMAIN cache'.store
    /\ LAST_PRECACHE_TIMESTAMP_KEY \in DOMAIN cache.store =>
         cache'.store[LAST_PRECACHE_TIMESTAMP_KEY] # cache.store[LAST_PRECACHE_TIMESTAMP_KEY]

\* the step completes the run: its loops are over, it returns
completes(run, run2) == run.pc = "finish" /\ run2.pc = "done"

\* C6: a run, batch or streamed, writes the last-precache timestamp exactly
\* once, in the step that follows its final attempt, whether or not radii
\* are still 'failed'; no other step of a run writes it.
C6_TimestampWrittenOncePerRun ==
    /\ [](\A run \in Runs : run.ts_writes = IF run.pc = "done" THEN 1 ELSE 0)
    /\ [][/\ \A run \in {<<batch, batch'>>, <<pstream, pstream'>>} :
               completes(run[1], run[2]) =>
                  /\ get_last_precache_timestamp(cache', clock').at = clock
                  /\ run[2].calls = run[1].calls
                  /\ run[2].retry_attempt = 3 \/ ~\E r \in Radii : run[2].results[r] = "failed"
          /\ writes_timestamp => completes(batch, batch') \/ completes(pstream, pstream')]_vars

C6_Witness ==
    /\ pstream.pc = "done"
    /\ pstream.ts_writes = 1
    /\ \E r \in Radii : pstream.results[r] = "failed"
    /\ get_last_precache_timestamp(cache, clock) # None

\* the step is a cache invalidation (the Airtable webhook, the admin route)
invalidates == cache'.store = clear_warehouse_cache(cache).store /\ cache'.store # cache.store

\* what a step may do to a recorded timestamp ts within its 30 days: leave
\* it, or have a later run overwrite it
timestamp_kept(ts) ==
    LET ts2 == get_last_precache_timestamp(cache', clock')
    IN  ts2 = ts \/ (ts2 # None /\ ts2.at > ts.at)

logs_then(events, last) ==
    /\ events # <<>>
    /\ \A k \in 1..(Len(events) - 1) : events[k].type = "log"
    /\ events[Len(events)].type = last

only_logs(events) == \A k \in DOMAIN events : events[k].type = "log"

\* C8: a get_coverage_gap_analysis_stream run emits log events and then
\* exactly one terminal event, the last of the run: 'data' when it
\* succeeds, 'error' when it fails, never both.
C8_AnalysisStreamOneTerminalEvent ==
    /\ sse.pc = "done" => logs_then(sse.events, "data")
    /\ sse.pc = "raised" => logs_then(sse.events, "error")
    /\ sse.pc \notin {"done", "raised"} => only_logs(sse.events)

C8_Witness ==
    /\ sse.pc = "raised"
    /\ sse.ran
    /\ Len(sse.events) >= 3
    /\ sse.events[Len(sse.events)].type = "error"

\* C9: a precache_all_radii_stream run ends with exactly one terminal
\* event, the last of the run: the 'data' event carrying the status of every
\* configured radius, also when radii ended 'failed' (or an 'error' event
\* if an exception escaped the job); before it only log events are emitted.
C9_PrecacheStreamOneTerminalEvent ==
    /\ pstream.pc = "done" =>
         /\ logs_then(pstream.events, "data") \/ logs_then(pstream.events, "error")
         /\ pstream.events[Len(pstream.events)].type = "data" =>
              /\ pstream.events[Len(pstream.events)].value.results = pstream.results
              /\ DOMAIN pstream.events[Len(pstream.events)].value.results = {25, 50, 100, 250, 500}
    /\ pstream.pc # "done" => only_logs(pstream.events)

C9_Witness ==
    /\ pstream.pc = "done"
    /\ pstream.events[Len(pstream.events)].type = "data"
    /\ \E r \in Radii : pstream.events[Len(pstream.events)].value.results[r] = "failed"

\* the step starts a get_coverage_gap_analysis_stream run
starts_stream == sse.pc \in {"idle", "done", "raised"} /\ sse'.pc \notin {"idle", "done", "raised"}

\* C10: when the cache holds an unexpired result under the request's key,
\* get_coverage_gap_analysis_stream emits exactly two events, the log event
\* announcing cache use and the data event carrying the cached result, and
\* neither runs the pipeline nor writes the cache.
C10_CacheHitShortCircuits ==
    /\ [](/\ (sse.pc = "cached_data" /\ sse.hit) =>
               sse.events = <<format_log("Using cached results")>> /\ ~sse.ran
          /\ (sse.pc = "done" /\ sse.hit) =>
               /\ sse.events = <<format_log("Using cached results"), format_data(sse.cached)>>
               /\ sse.cached # None
               /\ ~sse.ran)
    /\ [][/\ starts_stream =>
               LET cached == MemoryCache_get(cache, analysis_cache_key(sse'.filter_key, sse'.radius), clock)
               IN  cached # None =>
                      /\ sse'.hit /\ sse'.pc = "cached_data" /\ sse'.cached = cached
                      /\ cache' = cache
          /\ (sse.hit /\ sse'.at = sse.at /\ ~starts_stream) =>
               sse'.hit /\ sse'.pc \in {"cached_data", "done"} /\ (sse'.pc # sse.pc => cache' = cache)]_vars

C10_Witness ==
    /\ sse.pc = "done"
    /\ sse.hit
    /\ Len(sse.events) = 2
    /\ sse.events[2].value.kind = "analysis"

\* C11: at no time are two runs of the coverage precache job in progress,
\* however they were started: by the 3 AM cron trigger, by the delayed run
\* after startup, by the manual trigger route.
C11_NoOverlappingPrecacheRuns ==
    ~(InProgress(batch) /\ InProgress(pstream))

\* thread t is inside a with self._lock block
inside(t) == mc.th[t].pc \notin {"idle", "waiting", "done", "raised"}

\* the step ends thread t's call
leaves(t) == inside(t) /\ mc'.th[t].pc \in {"done", "raised"}

\* what get(k) is to return while the set recorded for k stands
standing(k) ==
    IF clock <= mc.written[k].at + mc.written[k].ttl THEN mc.written[k].value ELSE None

\* C12: after set(k, v, ttl), and until k is set again, deleted or cleared,
\* get(k) returns v while the clock has not passed the set time plus ttl,
\* and None once it has.
C12_SetGetRoundTrip ==
    /\ [](\A k \in DOMAIN mc.written : MemoryCache_get(cache, k, clock) = standing(k))
    /\ [][\A t \in Threads :
            (leaves(t) /\ mc.th[t].op = "get" /\ mc.th[t].key \in DOMAIN mc.written) =>
               /\ mc'.th[t].pc = "done"
               /\ mc'.th[t].ret = standing(mc.th[t].key)]_vars

C12_Witness ==
    \E t \in Threads :
       /\ mc.th[t].pc = "done"
       /\ mc.th[t].op = "get"
       /\ mc.th[t].key \in DOMAIN mc.written
       /\ mc.th[t].ret = mc.written[mc.th[t].key].value
       /\ clock = mc.written[mc.th[t].key].at + mc.written[mc.th[t].key].ttl

\* what a clear is to leave of a store: the entries of the other namespaces
kept_by_clear(store) ==
    [k \in {q \in DOMAIN store : q.ns \notin {"warehouses", "driving", "requests", "coverage_gap"}}
       |-> store[k]]

\* C13: clear_warehouse_cache removes every entry whose key starts with
\* 'warehouses:', 'driving:', 'requests:' or 'coverage_gap:' and leaves
\* every other entry as it was: key, value and expiry.
C13_ClearRemovesNamespacesOnly ==
    /\ [](clear_warehouse_cache(cache).store = kept_by_clear(cache.store))
    /\ [][\A t \in Threads :
            (leaves(t) /\ mc.th[t].op = "clear_warehouse_cache") =>
               /\ mc'.th[t].pc = "done"
               /\ cache'.store = kept_by_clear(mc.th[t].snap)]_vars

C13_Witness ==
    \E t \in Threads :
       /\ mc.th[t].pc = "done"
       /\ mc.th[t].op = "clear_warehouse_cache"
       /\ DOMAIN mc.th[t].snap = {WAREHOUSES_KEY, FOREIGN_KEY}
       /\ DOMAIN cache.store = {FOREIGN_KEY}
       /\ cache.store[FOREIGN_KEY] = mc.th[t].snap[FOREIGN_KEY]

\* what the call of thread th returns, and the store it leaves, when it
\* runs alone on the cache m at time now
alone_ret(th, m, now) ==
    CASE th.op = "get" -> MemoryCache_get(m, th.key, now)
      [] th.op = "get_cache_stats" -> get_cache_stats(m, now)
      [] OTHER -> None

alone_store(th, m, now) ==
    CASE th.op = "get" -> MemoryCache_after_get(m, th.key, now).store
      [] th.op = "set" -> MemoryCache_set(m, th.key, th.value, th.ttl, now).store
      [] th.op = "delete" -> MemoryCache_delete(m, th.key).store
      [] th.op = "clear_warehouse_cache" -> clear_warehouse_cache(m).store
      [] OTHER -> m.store

\* C14: concurrent get, set, delete, clear_warehouse_cache and
\* get_cache_stats calls take effect one at a time, in the order they took
\* the lock: at most one thread is inside a method body, every entry a
\* reader gets hold of has its value and its expiry, and each call returns
\* and leaves what it would running alone on the store it found.
C14_CallsAtomicUnderLock ==
    /\ [](/\ \A t, u \in Threads : (inside(t) /\ inside(u)) => t = u
          /\ \A t \in Threads : inside(t) <=> mc.lock = t
          /\ \A t \in Threads :
               mc.th[t].pc = "get_check" => {"value", "expires_at"} \subseteq DOMAIN mc.th[t].entry)
    /\ [][\A t \in Threads :
            leaves(t) =>
               /\ mc'.th[t].pc = "done"
               /\ mc'.th[t].ret = alone_ret(mc.th[t], [cache EXCEPT !.store = mc.th[t].snap], clock)
               /\ cache'.store =
                    alone_store(mc.th[t], [cache EXCEPT !.store = mc.th[t].snap], clock)]_vars

C14_Witness ==
    \E t, u \in Threads :
       /\ mc.th[t].pc = "get_check"
       /\ mc.th[u].pc = "waiting"
       /\ mc.th[u].op = "delete"
       /\ mc.th[u].key = mc.th[t].key

\* the documented rules, in their order: each a condition on (n, r) and the
\* opportunity it gives; r/n counts as 0 when n = 0
opportunity_rules(n, r) ==
    << [when |-> n > 0 /\ r > 25 * n, gives |-> "High"],
       [when |-> n = 1 /\ r > 10, gives |-> "High"],
       [when |-> n = 1 /\ r > 3, gives |-> "Moderate"],
       [when |-> n < 3 /\ r > 15, gives |-> "Moderate"],
       [when |-> n > 0 /\ r > 15 * n, gives |-> "Moderate"],
       [when |-> TRUE, gives |-> "None"] >>

first_matching(rules) ==
    rules[CHOOSE i \in DOMAIN rules :
            rules[i].when /\ \A j \in DOMAIN rules : rules[j].when => i <= j].gives

\* C15: the expansionOpportunity of a group of n warehouses with request
\* total r is what the first matching documented rule gives, whichever
\* function computes it; (1, 11) and (1, 30) give High, (1, 5) gives
\* Moderate, (5, 0) and (2, 12) give None.
C15_ExpansionOpportunityLadder ==
    (returned /= None /\ args \in OpportunityInputs) =>
       /\ returned.value = first_matching(opportunity_rules(args.warehouse_count, args.total_requests))
       /\ (<<args.warehouse_count, args.total_requests>> \in {<<1, 11>>, <<1, 30>>})
            => returned.value = "High"
       /\ <<args.warehouse_count, args.total_requests>> = <<1, 5>> => returned.value = "Moderate"
       /\ (<<args.warehouse_count, args.total_requests>> \in {<<5, 0>>, <<2, 12>>})
            => returned.value = "None"

C15_Witness ==
    /\ args \in OpportunityInputs
    /\ args.warehouse_count = 1
    /\ args.total_requests = 11
    /\ returned /= None
    /\ returned.value = "High"

\* how many of the four counts take the warehouse w
counted_in(w) ==
    (IF is_gold(w) THEN 1 ELSE 0) + (IF is_silver(w) THEN 1 ELSE 0)
      + (IF is_bronze(w) THEN 1 ELSE 0) + (IF is_un_tiered(w) THEN 1 ELSE 0)

\* C16: each warehouse of a group is counted in exactly one of the gold
\* (Gold or Potential Gold), silver, bronze and un-tiered counts, and the
\* four counts add up to warehouseCount, whatever the tier strings: blank,
\* in another case, padded with whitespace.
C16_TierCountsPartition ==
    (returned /= None /\ args \in TierInputs /\ returned.stage = "counted") =>
       /\ \A i \in DOMAIN returned.warehouses : counted_in(returned.warehouses[i]) = 1
       /\ returned.counts.goldWarehouseCount + returned.counts.silverWarehouseCount
            + returned.counts.bronzeWarehouseCount + returned.counts.unTieredWarehouseCount
          = returned.counts.warehouseCount
       /\ returned.counts.warehouseCount = Len(returned.warehouses)

C16_Witness ==
    /\ args \in TierInputs
    /\ returned /= None
    /\ returned.stage = "counted"
    /\ Len(returned.warehouses) = 2
    /\ returned.warehouses[1].tier = str_lower(Gold)
    /\ returned.warehouses[2].tier = <<" ">> \o PotentialGold \o <<"\t">>
    /\ returned.counts.unTieredWarehouseCount = 2

\* the string s without its surrounding whitespace, in lower case: what is
\* left of it when case and surrounding whitespace are ignored
plain(s) ==
    LET marks == {i \in DOMAIN s : s[i] \notin Whitespace}
    IN  IF marks = {} THEN <<>>
        ELSE str_lower(SubSeq(s, CHOOSE i \in marks : \A j \in marks : i <= j,
                                 CHOOSE i \in marks : \A j \in marks : j <= i))

\* the tier of w is one of the tiers, ignoring case and surrounding whitespace
tier_among(w, tiers) == \E t \in tiers : plain(w.tier) = plain(t)

\* C20: with tier=['Gold'], apply_warehouse_filters returns exactly the records
\* whose tier, ignoring case and surrounding whitespace, is Gold or Potential
\* Gold; with tier=['Un-tiered'] or ['Untiered'], exactly those whose tier is
\* blank or, compared the same way, none of Gold, Potential Gold, Silver and
\* Bronze; either way in the order of the input.
C20_TierFilterSelects ==
    (returned /= None /\ args \in TierInputs /\ returned.stage = "filtered") =>
       /\ args.filters = [tier |-> <<Gold>>] =>
            returned.warehouses =
               SelectSeq(args.warehouses, LAMBDA w : tier_among(w, {Gold, PotentialGold}))
       /\ args.filters \in {[tier |-> <<UnTiered>>], [tier |-> <<Untiered>>]} =>
            returned.warehouses =
               SelectSeq(args.warehouses,
                         LAMBDA w : plain(w.tier) = <<>>
                                    \/ ~tier_among(w, {Gold, PotentialGold, Silver, Bronze}))

C20_Witness ==
    /\ args \in TierInputs
    /\ args.filters = [tier |-> <<Gold>>]
    /\ Len(args.warehouses) = 2
    /\ args.warehouses[1].tier = Silver
    /\ args.warehouses[2].tier = <<" ">> \o PotentialGold \o <<"\t">>
    /\ returned /= None
    /\ returned.stage = "filtered"
    /\ returned.warehouses = <<args.warehouses[2]>>

\* no two records of the list have the same id
distinct_ids(warehouses) ==
    \A i, j \in DOMAIN warehouses : warehouses[i].id = warehouses[j].id => i = j

\* the step is one of the two expansions
expands == returned /= None /\ returned'.stage \in {"expanded", "expanded_all"}

\* the members of the group of city_key before the step
members_before(city_key) ==
    IF city_key \in DOMAIN returned.groups THEN returned.groups[city_key].warehouses ELSE <<>>

\* the centre the step measures from for city_key: the one the first expansion
\* worked with, or the catalog's coordinates of a city that had no group
centre_after(city_key) ==
    IF city_key \in DOMAIN returned'.centres THEN returned'.centres[city_key]
    ELSE [ok |-> TRUE, lat |-> us_cities[city_key].latitude,
          lng |-> us_cities[city_key].longitude, per |-> 1, from |-> <<>>]

\* C17: given warehouses with pairwise distinct ids, after radius expansion
\* no group holds the same warehouse twice, each group's total request count
\* is the sum of its members' request counts, and every warehouse an
\* expansion added to a group lies within radius_miles of the group's centre.
C17_ExpansionKeepsGroupsSound ==
    /\ []((/\ returned /= None
           /\ args \in ExpansionInputs
           /\ distinct_ids(args.warehouses)
           /\ returned.stage \in {"expanded", "expanded_all"}) =>
            \A city_key \in DOMAIN returned.groups :
               /\ distinct_ids(returned.groups[city_key].warehouses)
               /\ returned.groups[city_key].totalRequests
                    = sum([i \in DOMAIN returned.groups[city_key].warehouses |->
                             returned.groups[city_key].warehouses[i].reqCount]))
    /\ [][(expands /\ distinct_ids(args.warehouses)) =>
            \A city_key \in DOMAIN returned'.groups :
               /\ Len(members_before(city_key)) <= Len(returned'.groups[city_key].warehouses)
               /\ \A i \in DOMAIN returned'.groups[city_key].warehouses :
                    IF i <= Len(members_before(city_key))
                    THEN returned'.groups[city_key].warehouses[i] = members_before(city_key)[i]
                    ELSE /\ centre_after(city_key).ok
                         /\ abs(centre_after(city_key).lat
                                  - returned'.groups[city_key].warehouses[i].lat
                                      * centre_after(city_key).per)
                              + abs(centre_after(city_key).lng
                                      - returned'.groups[city_key].warehouses[i].lng
                                          * centre_after(city_key).per)
                            <= args.radius_miles * centre_after(city_key).per]_vars

C17_Witness ==
    /\ returned /= None
    /\ args \in ExpansionInputs
    /\ distinct_ids(args.warehouses)
    /\ returned.stage = "expanded"
    /\ \E city_key \in DOMAIN returned.groups :
          /\ Len(returned.groups[city_key].warehouses) = 3
          /\ returned.groups[city_key].warehouses[1].city = city_key[1]
          /\ has_coordinates(returned.groups[city_key].warehouses[1])
          /\ within_radius(returned.centres[city_key], returned.groups[city_key].warehouses[1],
                           args.radius_miles)
          /\ returned.groups[city_key].warehouses[2].city /= city_key[1]
          /\ returned.centres[city_key].per = 1
          /\ returned.groups[city_key].totalRequests = 9

\* the warehouses of a list
members(warehouses) == {warehouses[i] : i \in DOMAIN warehouses}

\* the warehouses of a list, each known by its id as the analysis knows it
member_ids(warehouses) == {warehouses[i].id : i \in DOMAIN warehouses}

\* C18: for the same warehouses and catalog and radii 0 <= r1 <= r2, every
\* warehouse in a location's group when the analysis runs with r1 is in that
\* location's group when it runs with r2; a warehouse is the record of its
\* id, and where no two records share an id the very records are kept.
C18_RadiusMonotonic ==
    (returned /= None /\ args \in ExpansionInputs /\ returned.stage = "analysed") =>
       \A r1 \in 0..args.radius_miles :
          \A city_key \in DOMAIN groups_at(args.warehouses, r1) :
             /\ city_key \in DOMAIN returned.groups
             /\ member_ids(groups_at(args.warehouses, r1)[city_key].warehouses)
                  \subseteq member_ids(returned.groups[city_key].warehouses)
             /\ distinct_ids(args.warehouses) =>
                  members(groups_at(args.warehouses, r1)[city_key].warehouses)
                    \subseteq members(returned.groups[city_key].warehouses)

C18_Witness ==
    /\ returned /= None
    /\ args \in ExpansionInputs
    /\ returned.stage = "analysed"
    /\ args.radius_miles = 2
    /\ \E city_key \in DOMAIN returned.groups :
          /\ city_key \in DOMAIN groups_at(args.warehouses, 1)
          /\ city_key \in DOMAIN groups_at(args.warehouses, 0)
          /\ Len(groups_at(args.warehouses, 0)[city_key].warehouses) = 1
          /\ Len(groups_at(args.warehouses, 1)[city_key].warehouses) = 2
          /\ Len(returned.groups[city_key].warehouses) = 3

\* C19: a warehouse at the (0,0) sentinel is never added to a group by an
\* expansion, is never among the warehouses a group's centre is computed
\* from, and never takes part in a distance that goes into nearbyWarehouses.
C19_SentinelCoordinatesExcluded ==
    /\ []((returned /= None /\ args \in ExpansionInputs) =>
            /\ \A city_key \in DOMAIN returned.centres :
                  \A i \in DOMAIN returned.centres[city_key].from :
                     ~(returned.centres[city_key].from[i].lat = 0
                         /\ returned.centres[city_key].from[i].lng = 0)
            /\ \A city_key \in DOMAIN returned.entries :
                  \A i \in DOMAIN returned.entries[city_key].nearbyWarehouses :
                     \A j \in DOMAIN returned.entries[city_key].nearbyWarehouses[i].terms :
                        /\ ~(returned.entries[city_key].nearbyWarehouses[i].terms[j].lat = 0
                               /\ returned.entries[city_key].nearbyWarehouses[i].terms[j].lng = 0)
                        /\ \E w \in members(returned.groups[city_key].warehouses) :
                              /\ w.id = returned.entries[city_key].nearbyWarehouses[i].id
                              /\ ~(w.lat = 0 /\ w.lng = 0))
    /\ [][expands =>
            \A city_key \in DOMAIN returned'.groups :
               \A i \in DOMAIN returned'.groups[city_key].warehouses :
                  i > Len(members_before(city_key)) =>
                     ~(returned'.groups[city_key].warehouses[i].lat = 0
                         /\ returned'.groups[city_key].warehouses[i].lng = 0)]_vars

C19_Witness ==
    /\ returned /= None
    /\ args \in ExpansionInputs
    /\ returned.stage = "analysed"
    /\ args.radius_miles > 0
    /\ \E city_key \in DOMAIN returned.centres :
          /\ returned.centres[city_key].per = 1
          /\ returned.centres[city_key].from /= <<>>
          /\ Len(returned.groups[city_key].warehouses) = 3
          /\ returned.groups[city_key].warehouses[1].lat = 0
          /\ returned.groups[city_key].warehouses[1].lng = 0
          /\ returned.groups[city_key].warehouses[3].city /= city_key[1]
          /\ city_key \in DOMAIN returned.entries
          /\ returned.entries[city_key].nearbyWarehouses[1].terms = <<>>
          /\ Len(returned.entries[city_key].nearbyWarehouses[2].terms) = 1

\* some filter value equals, ignoring case and surrounding whitespace, one of
\* the comma-split values of the record's field
shares_value(wh, filter_values) ==
    \E i \in DOMAIN filter_values :
       \E j \in DOMAIN str_split(wh.value, <<>>) :
          /\ plain(filter_values[i]) = plain(str_split(wh.value, <<>>)[j])
          /\ plain(filter_values[i]) /= <<>>

\* C21: for each of the hazmat, disposal, food-grade, paper-clamps and
\* parking filters, a record passes the filter exactly when some filter
\* value equals, ignoring case and surrounding whitespace, one of the
\* record's comma-split values for the field.
C21_ListFiltersMatchAnyValue ==
    (returned /= None /\ args \in FieldInputs /\ args.filter_values /= <<>>) =>
       returned.warehouses
         = SelectSeq(args.warehouses, LAMBDA wh : shares_value(wh, args.filter_values))

\* the raw coordinate is a string float() rejects
unparseable(raw) == raw.shape = "string" /\ ~parses(raw.text)

\* C22: transform_warehouse_to_static_data returns a StaticWarehouseData and
\* never raises, whatever the shape of the raw record: an unparseable
\* coordinate string becomes 0.0, an error object in a field becomes the
\* empty string, and a null or error-shaped Latitude, Longitude or id
\* becomes a default.
C22_TransformTotal ==
    (returned /= None /\ args \in TransformInputs) =>
       /\ ~returned.raised
       /\ unparseable(args.record.Latitude) => returned.lat = 0
       /\ unparseable(args.record.Longitude) => returned.lng = 0
       /\ args.record.Tier.shape = "error" => returned.tier = <<>>
       /\ args.record.Latitude.shape \in {"null", "error"} => returned.lat = 0
       /\ args.record.Longitude.shape \in {"null", "error"} => returned.lng = 0
       /\ args.record.id.shape = "null" => returned.id = <<>>

\* C23: when the generative-AI collaborator has no API key or its call
\* fails, the AI analysis does not raise and returns the complete
\* rule-based result: the coverage gaps, high-request areas, trends and
\* recommendations the rules derive from the grouped city data, also when
\* no city has 10 or more requests.
C23_AiFallbackComplete ==
    (returned /= None /\ args \in AiInputs /\ (~args.gemini_key \/ ~args.generated)) =>
       /\ ~returned.raised
       /\ returned.coverageGaps = coverage_gaps(args.groups)
       /\ returned.highRequestAreas = high_request_areas(args.groups)
       /\ returned.requestTrends = "trends"
       /\ returned.recommendations
            = first_recommendations(args.groups) \cup ratio_recommendation(args.groups)

\* C24: once invalidate_warehouse_cache has completed, no later cache read
\* returns a coverage result or a warehouse list computed from data fetched
\* before the invalidation, also when an analysis was in flight when the
\* invalidation happened.
C24_NoStaleReadAfterInvalidation ==
    (returned.read /= None /\ returned.read.kind \in {"analysis", "warehouses"}) =>
       returned.read.at >= returned.invalidated_at

\* the delays of the retries made so far are the first of 5, 10 and 20 s
backoff_so_far(slept) ==
    /\ Len(slept) <= 3
    /\ \A i \in DOMAIN slept : slept[i] = <<5, 10, 20>>[i]

\* C26: precache_ai_analysis makes one initial attempt and at most 3 retries,
\* after waits of 5, 10 and 20 s; it stops at the first attempt whose
\* analysis completes and returns True exactly then; when the upstream
\* succeeds at the initial attempt it returns True with no wait; and the AI
\* last-precache timestamp is written only by a successful attempt.
C26_AiPrecacheRetriesUntilSuccess ==
    [](/\ backoff_so_far(args.slept)
       /\ Len(args.healthy) <= 4
       /\ args.pc = "done" =>
            /\ args.ret <=> args.healthy[Len(args.healthy)]
            /\ \A i \in 1..(Len(args.healthy) - 1) : ~args.healthy[i]
            /\ args.healthy[1] => args.slept = <<>>
       /\ get_last_ai_analysis_precache_timestamp(cache, clock) # None =>
            \E i \in DOMAIN args.healthy : args.healthy[i])

\* C30: an entry whose expansionOpportunity is 'High' has hasCoverageGap true,
\* hasCoverageGap being true exactly when warehouseCount < 2 or the requests
\* per warehouse exceed 20; and an entry with warehouseCount 0 has
\* hasCoverageGap true and expansionOpportunity 'None'.
C30_HighOpportunityImpliesGap ==
    (returned /= None /\ args \in OpportunityInputs) =>
       /\ returned.hasCoverageGap <=>
            (returned.warehouseCount < 2
               \/ (returned.warehouseCount > 0
                     /\ args.total_requests > 20 * returned.warehouseCount))
       /\ returned.value = "High" => returned.hasCoverageGap
       /\ returned.warehouseCount = 0 => (returned.hasCoverageGap /\ returned.value = "None")

\* a High entry of two warehouses, whose gap is one of load
C30_Witness ==
    /\ returned /= None
    /\ args \in OpportunityInputs
    /\ returned.value = "High"
    /\ returned.warehouseCount = 2
    /\ args.total_requests = 2 * 25 + 1
    /\ returned.hasCoverageGap

\* an entry of a location without warehouses
C30_WitnessNoWarehouse ==
    /\ returned /= None
    /\ args \in OpportunityInputs
    /\ returned.warehouseCount = 0
    /\ returned.hasCoverageGap
    /\ returned.value = "None"

\* some warehouse of the list names the city as its own
has_own_warehouse(city_key, warehouses) ==
    \E i \in DOMAIN warehouses :
       /\ warehouses[i].city = city_key[1]
       /\ warehouses[i].state = city_key[2]

\* the warehouses with valid coordinates within radius_miles of the catalog's
\* coordinates of the city, in the order of the list
in_range_of(city_key, warehouses, radius_miles) ==
    SelectSeq(warehouses,
              LAMBDA w : /\ w.lat /= 0
                         /\ w.lng /= 0
                         /\ abs(us_cities[city_key].latitude - w.lat)
                              + abs(us_cities[city_key].longitude - w.lng) <= radius_miles)

\* C25: with radius_miles > 0, every catalog city with coordinates and no
\* warehouse of its own that has a valid warehouse within the radius gets a
\* group of exactly the valid warehouses within the radius, whose total is
\* the sum of their request counts; one with no warehouse in range gets no
\* group and keeps warehouseCount 0.
C25_CatalogCitiesGetNearbyWarehouses ==
    (/\ returned /= None
     /\ args \in ExpansionInputs
     /\ args.radius_miles > 0
     /\ returned.stage \in {"expanded_all", "analysed"}) =>
       \A city_key \in DOMAIN us_cities :
          (/\ ~has_own_warehouse(city_key, args.warehouses)
           /\ us_cities[city_key].latitude /= 0
           /\ us_cities[city_key].longitude /= 0) =>
             IF in_range_of(city_key, args.warehouses, args.radius_miles) /= <<>>
             THEN /\ city_key \in DOMAIN returned.groups
                  /\ returned.groups[city_key].warehouses
                       = in_range_of(city_key, args.warehouses, args.radius_miles)
                  /\ returned.groups[city_key].totalRequests
                       = sum([i \in DOMAIN in_range_of(city_key, args.warehouses, args.radius_miles) |->
                                in_range_of(city_key, args.warehouses, args.radius_miles)[i].reqCount])
                  /\ returned.stage = "analysed" =>
                       returned.entries[city_key].warehouseCount
                         = Len(in_range_of(city_key, args.warehouses, args.radius_miles))
             ELSE /\ city_key \notin DOMAIN returned.groups
                  /\ returned.stage = "analysed" => returned.entries[city_key].warehouseCount = 0

\* Cuero gets the two warehouses one mile away; Austin, two miles from them,
\* gets none
C25_Witness ==
    /\ returned /= None
    /\ args \in ExpansionInputs
    /\ args.radius_miles = 1
    /\ returned.stage = "analysed"
    /\ ~has_own_warehouse(<<"Cuero", "TX">>, args.warehouses)
    /\ ~has_own_warehouse(<<"Austin", "TX">>, args.warehouses)
    /\ <<"Cuero", "TX">> \in DOMAIN returned.groups
    /\ Len(returned.groups[<<"Cuero", "TX">>].warehouses) = 2
    /\ returned.groups[<<"Cuero", "TX">>].totalRequests = 4
    /\ returned.entries[<<"Cuero", "TX">>].warehouseCount = 2
    /\ <<"Austin", "TX">> \notin DOMAIN returned.groups
    /\ returned.entries[<<"Austin", "TX">>].warehouseCount = 0

\* a precached result is in the store
precached_present(m) == \E r \in Radii : get_precache_key(r) \in DOMAIN m.store

final_payload == pstream.events[Len(pstream.events)].value

C29_EveryWarehouseCounted ==
    (returned /= None /\ args \in ExpansionInputs /\ returned.stage = "analysed") =>
       \A i \in DOMAIN args.warehouses :
          (args.warehouses[i].city /= "" /\ args.warehouses[i].state /= "") =>
             \E city_key \in DOMAIN returned.entries :
                /\ returned.entries[city_key].warehouseCount > 0
                /\ city_key \in DOMAIN returned.groups
                /\ args.warehouses[i] \in members(returned.groups[city_key].warehouses)

====
